---- MODULE Spec2Model ----
(***************************************************************************)
(* A model of the Telescope Python client: the thread-local context store  *)
(* (telescope/context.py), the capture pipeline of TelescopeClient         *)
(* (telescope/client.py), the capture_errors decorator                     *)
(* (telescope/decorators.py) and the integration lifecycle                 *)
(* (telescope/integrations/base.py, telescope/integrations/registry.py).   *)
(*                                                                         *)
(* Python dictionaries are objects: two names can hold the same dictionary *)
(* and dict.update changes it in place.  The context store's sub-maps      *)
(* therefore live in a heap of dictionary objects and the context holds    *)
(* references to them.                                                     *)
(***************************************************************************)
EXTENDS Integers, Sequences, FiniteSets, TLC

VARIABLES
    ctx,        \* per thread: _local.context (exists flag + references)
    heap,       \* the dictionary objects the contexts refer to
    stack,      \* per thread: the with_context scopes that are open
    merged,     \* per thread: history, the merge of the set_tags/set_extra calls
    client,     \* per thread: _local.client is set
    uuidCount,  \* how many uuid4 values have been generated
    sent,       \* the events the most recent call handed to _send_event
    issued,     \* history: the event ids the capture calls have returned
    registered, \* IntegrationRegistry._integrations: the identifiers registered
    processed,  \* IntegrationRegistry._processed
    installed,  \* IntegrationRegistry._installed
    regPc,      \* per thread: where it is in IntegrationRegistry.setup
    onceCount,  \* history, per identifier: the setup_once() calls executed
    setupCount, \* history, per identifier: the setup(client) calls executed
    settled,    \* history, per identifier: what its activation was logged as
    handled,    \* history: how setup_integrations has handled soft-skips
    capPc,      \* per thread: where it is in a capture call, and its locals
    cli,        \* the TelescopeClient object: its settings and its session
    snap,       \* the dict a caller of get_context() still holds
    last        \* history: the most recent call, its arguments and result

ctxVars == <<ctx, heap, stack, merged>>

captureVars == <<client, uuidCount, sent, issued>>

intVars == <<registered, processed, installed, regPc, onceCount, setupCount,
             settled, handled>>

cliVars == <<capPc, cli, snap>>

----------------------------------------------------------------------------
(* Bounds *)

\* with_context scopes open at once in one thread
MaxDepth == 2

\* capture calls made in one run
MaxEvents == 2

\* the largest max_retries a retry_with_telemetry decorator is given
MaxRetries == 2

----------------------------------------------------------------------------
(* Values *)

Threads == {"t1", "t2"}

\* Python's None, as an argument value
None == "<None>"

TopKeys == {"user", "tags", "extra"}

\* A Python dict is a function on the set of its keys.
EmptyDict == [k \in {} |-> ""]

\* dict.update(e) on a dict d, and {**d, **e}
Overlay(d, e) ==
    [k \in (DOMAIN d) \cup (DOMAIN e) |-> IF k \in DOMAIN e THEN e[k] ELSE d[k]]

\* d.get(k, {})
GetOr(d, k) == IF k \in DOMAIN d THEN d[k] ELSE EmptyDict

\* bool(v) of an optional string
Truthy(v) == v # None /\ v # ""

\* One entry {k: v} when cond, else nothing
Entry(cond, k, v) == IF cond THEN [x \in {k} |-> v] ELSE EmptyDict

----------------------------------------------------------------------------
(* The heap of dictionary objects *)

ThreadSeq == <<"t1", "t2">>

ThreadIndex(t) == CHOOSE j \in DOMAIN ThreadSeq : ThreadSeq[j] = t

KeyIndex(k) == CASE k = "user" -> 1 [] k = "tags" -> 2 [] k = "extra" -> 3

\* Every open scope holds a shallow copy (3 references) and so does the
\* current context.
MaxObj == 3 * (MaxDepth + 1) * Len(ThreadSeq)

Objs == 1 .. MaxObj

\* reference 0: the key is not in the top-level dict
NoRef == 0

\* _local has no attribute "context"
NoContext == [exists |-> FALSE, user |-> NoRef, tags |-> NoRef, extra |-> NoRef]

\* _local.context = {}
EmptyContext == [exists |-> TRUE, user |-> NoRef, tags |-> NoRef, extra |-> NoRef]

Refs(c) == {c[k] : k \in TopKeys} \ {NoRef}

StackRefs(s) == UNION {Refs(s[i].saved) : i \in DOMAIN s}

\* A new dict object, made by thread t for key k while d scopes are open.
\* An object made with d scopes open is held by the thread's context and by
\* the scopes opened later, so when the thread makes another one for the same
\* key with d scopes open, nothing else holds the earlier one any more: the
\* name is free.
NewObj(t, d, k) == ((ThreadIndex(t) - 1) * (MaxDepth + 1) + d) * 3 + KeyIndex(k)

\* Objects nothing refers to are freed (reference counting)
Collect(h, c, s) ==
    LET live == UNION {Refs(c[u]) : u \in Threads}
                    \cup UNION {StackRefs(s[u]) : u \in Threads}
    IN  [i \in Objs |-> IF i \in live THEN h[i] ELSE EmptyDict]

\* The value of a top-level dict c in heap h, key by key and value by value
Value(c, h) == [k \in {x \in TopKeys : c[x] # NoRef} |-> h[c[k]]]

----------------------------------------------------------------------------
(* context.py: the operations on one thread's store.  A store is           *)
(* [c: the thread's context, h: the heap, t: the thread, d: open scopes].  *)

\* if not hasattr(_local, "context"): _local.context = {}
EnsureContext(st) ==
    IF st.c.exists THEN st ELSE [st EXCEPT !.c = EmptyContext]

\* user_context = {}; if user_id: ...; user_context.update(extra_fields)
UserDict(a) ==
    Overlay(Overlay(Overlay(Entry(Truthy(a.user_id), "id", a.user_id),
                            Entry(Truthy(a.username), "username", a.username)),
                    Entry(Truthy(a.email), "email", a.email)),
            a.extra_fields)

\* A variant of StoreUser: user_context is merged into the dict already there.
StoreUserMerging(st, a) ==
    LET s1 == EnsureContext(st)
        n  == NewObj(st.t, st.d, "user")
        old == IF s1.c.user = NoRef THEN EmptyDict ELSE s1.h[s1.c.user]
    IN  [s1 EXCEPT !.c.user = n, !.h[n] = Overlay(old, UserDict(a))]

\* set_user_context: _local.context["user"] = user_context, a new dict
StoreUser(st, a) ==
    LET s1 == EnsureContext(st)
        n  == NewObj(st.t, st.d, "user")
    IN  [s1 EXCEPT !.c.user = n, !.h[n] = UserDict(a)]

\* if key not in _local.context: _local.context[key] = {}
EnsureKey(st, key) ==
    IF st.c[key] # NoRef THEN st
    ELSE LET n == NewObj(st.t, st.d, key)
         IN  [st EXCEPT !.c[key] = n, !.h[n] = EmptyDict]

\* A variant of StoreUpdate: the sub-map is replaced by the new keys.
StoreUpdateReplacing(st, key, d) ==
    LET s1 == EnsureKey(EnsureContext(st), key)
    IN  [s1 EXCEPT !.h[s1.c[key]] = d]

\* set_tags / set_extra: _local.context[key].update(d), in place
StoreUpdate(st, key, d) ==
    LET s1 == EnsureKey(EnsureContext(st), key)
    IN  [s1 EXCEPT !.h[s1.c[key]] = Overlay(s1.h[s1.c[key]], d)]

\* A variant of StoreClear: the context is left as it is.
StoreClearKeeping(st) == st

\* clear_context: if hasattr(_local, "context"): _local.context = {}
StoreClear(st) ==
    IF st.c.exists THEN [st EXCEPT !.c = EmptyContext] ELSE st

\* get_context(): getattr(_local, "context", {}), by value
get_context(t) == Value(ctx[t], heap)

\* The store of thread t in the current state
Store(t) == [c |-> ctx[t], h |-> heap, t |-> t, d |-> Len(stack[t])]

----------------------------------------------------------------------------
(* context.py: with_context *)

\* __enter__, after the copy: for key, value in self.context_data.items():
\* user -> set_user_context(**value), tags -> set_tags(**value),
\* extra -> set_extra(**value); any other key is skipped
ApplyContextData(st, data) ==
    LET s1 == IF "user" \in DOMAIN data THEN StoreUser(st, data.user) ELSE st
        s2 == IF "tags" \in DOMAIN data THEN StoreUpdate(s1, "tags", data.tags) ELSE s1
    IN  IF "extra" \in DOMAIN data THEN StoreUpdate(s2, "extra", data.extra) ELSE s2

\* self.original_context = get_context().copy(): a new top-level dict that
\* holds the same sub-map objects (a shallow copy)
SavedCopy(t) ==
    [c |-> [ctx[t] EXCEPT !.exists = TRUE], h |-> heap]

----------------------------------------------------------------------------
(* History *)

NoMerge == [ok |-> FALSE, tags |-> EmptyDict, extra |-> EmptyDict]

StartMerge == [ok |-> TRUE, tags |-> EmptyDict, extra |-> EmptyDict]

\* The merge of the set_tags / set_extra calls made since the context was
\* empty, as long as no other call has replaced the context
MergeInto(m, key, d) ==
    IF m.ok THEN [m EXCEPT ![key] = Overlay(m[key], d)] ELSE m

\* An event id that is no id: the call returned nothing
NoId == 0

NoCall ==
    [op |-> "none", t |-> "t1", arg |-> EmptyDict, before |-> EmptyDict,
     ret |-> NoId, raised |-> "none", value |-> ""]

\* A call of the context store: it returns None and raises nothing
Called(op, t, arg, before) ==
    [op |-> op, t |-> t, arg |-> arg, before |-> before,
     ret |-> NoId, raised |-> "none", value |-> ""]

\* A call that returned the event id ret or the value, or raised
Returned(op, t, arg, ret, raised, value) ==
    [op |-> op, t |-> t, arg |-> arg, before |-> EmptyDict,
     ret |-> ret, raised |-> raised, value |-> value]

\* A call that sends nothing and leaves the client alone
Quiet == sent' = <<>> /\ UNCHANGED <<client, uuidCount, issued, intVars, cliVars>>

----------------------------------------------------------------------------
(* context.py: the calls *)

\* A variant of Commit: the context is a module global that the threads share.
CommitShared(t, r, s) ==
    /\ ctx' = [u \in Threads |-> r.c]
    /\ stack' = [stack EXCEPT ![t] = s]
    /\ heap' = Collect(r.h, ctx', stack')

\* The thread's store r and its scopes s become the state
Commit(t, r, s) ==
    /\ ctx' = [ctx EXCEPT ![t] = r.c]
    /\ stack' = [stack EXCEPT ![t] = s]
    /\ heap' = Collect(r.h, ctx', stack')

set_user_context(t, a) ==
    /\ Commit(t, StoreUser(Store(t), a), stack[t])
    /\ merged' = merged
    /\ last' = Called("set_user_context", t, a, GetOr(get_context(t), "user"))
    /\ Quiet

set_tags(t, tags) ==
    /\ Commit(t, StoreUpdate(Store(t), "tags", tags), stack[t])
    /\ merged' = [merged EXCEPT ![t] = MergeInto(@, "tags", tags)]
    /\ last' = Called("set_tags", t, tags, EmptyDict)
    /\ Quiet

set_extra(t, extra) ==
    /\ Commit(t, StoreUpdate(Store(t), "extra", extra), stack[t])
    /\ merged' = [merged EXCEPT ![t] = MergeInto(@, "extra", extra)]
    /\ last' = Called("set_extra", t, extra, EmptyDict)
    /\ Quiet

clear_context(t) ==
    /\ Commit(t, StoreClear(Store(t)), stack[t])
    /\ merged' = [merged EXCEPT ![t] = StartMerge]
    /\ last' = Called("clear_context", t, EmptyDict, EmptyDict)
    /\ Quiet

\* with with_context(**data): ContextManager.__enter__
with_context_enter(t, data) ==
    /\ Len(stack[t]) < MaxDepth
    /\ LET copy == SavedCopy(t)
           st == [c |-> ctx[t], h |-> copy.h, t |-> t, d |-> Len(stack[t]) + 1]
       IN  Commit(t, ApplyContextData(st, data),
                  Append(stack[t], [saved |-> copy.c, before |-> get_context(t)]))
    /\ merged' = [merged EXCEPT ![t] =
                    MergeInto(MergeInto(@, "tags", GetOr(data, "tags")),
                              "extra", GetOr(data, "extra"))]
    /\ last' = Called("with_context_enter", t, data, EmptyDict)
    /\ Quiet

\* ContextManager.__exit__, reached when the block returns and when it raises:
\* if hasattr(_local, "context"): _local.context = self.original_context
with_context_exit(t, how) ==
    /\ Len(stack[t]) > 0
    /\ LET top == stack[t][Len(stack[t])]
       IN  /\ Commit(t, [c |-> IF ctx[t].exists THEN top.saved ELSE ctx[t],
                         h |-> heap],
                     SubSeq(stack[t], 1, Len(stack[t]) - 1))
           /\ last' = Called("with_context_exit", t, how, top.before)
    /\ merged' = [merged EXCEPT ![t] = NoMerge]
    /\ Quiet

----------------------------------------------------------------------------
(* context.py: get_context, and what its caller does with the dict *)

\* The dict the caller holds: _local.context itself when it was returned
\* (live), else the fresh {} that getattr's default made
HeldValue == IF snap.live THEN get_context(snap.t) ELSE snap.value

\* return getattr(_local, "context", {}): the context object, not a copy
ReturnedDict(t) ==
    [held |-> TRUE, t |-> t, live |-> ctx[t].exists, value |-> EmptyDict,
     at |-> get_context(t)]

\* c = get_context()
get_context_call(t) ==
    /\ snap' = ReturnedDict(t)
    /\ sent' = <<>>
    /\ last' = Returned("get_context", t, EmptyDict, NoId, "none", "")
    /\ UNCHANGED <<ctxVars, client, uuidCount, issued, intVars, capPc, cli>>

\* The caller of get_context() runs c[key].update(d) on the dict it holds,
\* which has the key
returned_update(key, d) ==
    /\ snap.held
    /\ key \in DOMAIN HeldValue
    /\ IF snap.live
       THEN /\ Commit(snap.t, StoreUpdate(Store(snap.t), key, d), stack[snap.t])
            /\ snap' = snap
       ELSE /\ snap' = [snap EXCEPT !.value[key] = Overlay(@, d)]
            /\ UNCHANGED <<ctx, heap, stack>>
    /\ merged' = [merged EXCEPT ![snap.t] = NoMerge]
    /\ sent' = <<>>
    /\ last' = Called("returned_update", snap.t, [key |-> key, d |-> d], EmptyDict)
    /\ UNCHANGED <<client, uuidCount, issued, intVars, capPc, cli>>

\* The caller of get_context() runs c[key] = d on the dict it holds
returned_set(key, d) ==
    /\ snap.held
    /\ IF snap.live
       THEN /\ LET st == Store(snap.t)
                   n == NewObj(snap.t, st.d, key)
               IN  Commit(snap.t, [st EXCEPT !.c[key] = n, !.h[n] = d],
                          stack[snap.t])
            /\ snap' = snap
       ELSE /\ snap' = [snap EXCEPT !.value = Overlay(@, [k \in {key} |-> d])]
            /\ UNCHANGED <<ctx, heap, stack>>
    /\ merged' = [merged EXCEPT ![snap.t] = NoMerge]
    /\ sent' = <<>>
    /\ last' = Called("returned_set", snap.t, [key |-> key, d |-> d], EmptyDict)
    /\ UNCHANGED <<client, uuidCount, issued, intVars, capPc, cli>>

----------------------------------------------------------------------------
(* client.py: TelescopeClient *)

\* An optional dict argument: None is <<>>, a dict d is <<d>>
NoDict == <<>>

Some(d) == <<d>>

\* tags or {}
OrEmpty(o) == IF Len(o) = 0 THEN EmptyDict ELSE o[1]

\* A variant of Uuid4: every call draws the same value.
Uuid4Constant(n) == 1

\* str(uuid.uuid4()) when n values have been generated: a value that is none
\* of them (uuid4 draws 122 random bits; a repeat is not modelled)
Uuid4(n) == n + 1

\* What self.session.post does: it answers with a status code or it raises
Outcomes ==
    { [kind |-> "response", status |-> 200],
      [kind |-> "response", status |-> 201],
      [kind |-> "response", status |-> 202],
      [kind |-> "response", status |-> 500],
      [kind |-> "exception", status |-> 0] }

PostError == "ConnectionError"

\* TelescopeClient.__init__ with its defaults: sample_rate=1.0 (in percent),
\* enable_tracing=True, otlp_endpoint=None; self.session is a new Session.
\* pending counts the ended spans that wait in the BatchSpanProcessor
DefaultClient ==
    [sample_rate |-> 100, enable_tracing |-> TRUE, otlp_endpoint |-> FALSE,
     session |-> "open", pending |-> 0]

\* _setup_tracing adds a BatchSpanProcessor only if otlp_endpoint is given
Exporting(c) == c.enable_tracing /\ c.otlp_endpoint

\* _send_event, with self.tracer.start_span("telescope.send_event"): n spans
\* have ended; they are pending when a span processor collects them
Traced(n) ==
    /\ cli' = [cli EXCEPT !.pending = IF Exporting(cli) THEN @ + n ELSE @]
    /\ UNCHANGED <<capPc, snap>>

\* A thread that is in no capture call
NotCapturing ==
    [pc |-> "idle", op |-> "none", call |-> EmptyDict, event |-> EmptyDict,
     result |-> EmptyDict]

\* No caller holds a dict returned by get_context()
NoSnapshot ==
    [held |-> FALSE, t |-> "t1", live |-> FALSE, value |-> EmptyDict,
     at |-> EmptyDict]

\* A variant of SendEvent: the try/except around the POST is missing.
SendEventUnguarded(event, outcome) ==
    IF outcome.kind = "exception"
    THEN [raised |-> PostError, printed |-> "", posts |-> <<event>>]
    ELSE [raised |-> "none", posts |-> <<event>>,
          printed |-> IF outcome.status \notin {200, 201, 202}
                      THEN "Failed to send event to Telescope" ELSE ""]

\* A variant of SendEvent: a POST that fails is made once more.
SendEventRetrying(event, outcome) ==
    IF outcome.kind = "exception"
    THEN [raised |-> "none", printed |-> "Error sending event to Telescope",
          posts |-> <<event, event>>]
    ELSE IF outcome.status \notin {200, 201, 202}
    THEN [raised |-> "none", printed |-> "Failed to send event to Telescope",
          posts |-> <<event, event>>]
    ELSE [raised |-> "none", printed |-> "", posts |-> <<event>>]

\* _send_event: one POST inside try/except Exception; the result is what it
\* raises to its caller, what it prints and the payloads it has posted
SendEvent(event, outcome) ==
    IF outcome.kind = "exception"
    THEN [raised |-> "none", printed |-> "Error sending event to Telescope",
          posts |-> <<event>>]
    ELSE [raised |-> "none", posts |-> <<event>>,
          printed |-> IF outcome.status \notin {200, 201, 202}
                      THEN "Failed to send event to Telescope" ELSE ""]

\* trace.get_current_span() when no span is active: INVALID_SPAN, which is not
\* recording
NoSpan == [recording |-> FALSE, trace_id |-> 0, span_id |-> 0]

HexChars == <<"0", "1", "2", "3", "4", "5", "6", "7",
              "8", "9", "a", "b", "c", "d", "e", "f">>

\* format(n, "x"): the hexadecimal digits of n, most significant first
RECURSIVE HexDigits(_)
HexDigits(n) ==
    IF n < 16 THEN <<HexChars[n + 1]>>
    ELSE Append(HexDigits(n \div 16), HexChars[(n % 16) + 1])

\* A variant of FormatHex: the digits are not padded.
FormatHexUnpadded(n, width) == HexDigits(n)

\* format(n, "032x") / format(n, "016x"): padded with zeros on the left to
\* width digits
FormatHex(n, width) ==
    LET d == HexDigits(n)
        pad == width - Len(d)
    IN  IF pad <= 0 THEN d
        ELSE [i \in 1 .. width |-> IF i <= pad THEN "0" ELSE d[i - pad]]

TraceIdWidth == 32

SpanIdWidth == 16

\* "trace": {"trace_id": trace_id, "span_id": span_id} if trace_id else {},
\* the ids being set if current_span and current_span.is_recording()
TraceContext(span) ==
    IF span.recording
    THEN [trace_id |-> FormatHex(span.trace_id, TraceIdWidth),
          span_id |-> FormatHex(span.span_id, SpanIdWidth)]
    ELSE EmptyDict

\* baggage_items = baggage.get_all(); if baggage_items:
\* event_data["contexts"]["baggage"] = dict(baggage_items).  The key is absent
\* (NoDict) or holds a dict
BaggageContext(baggage_items) ==
    IF baggage_items # EmptyDict THEN Some(baggage_items) ELSE NoDict

\* capture_exception, event_data: "tags": tags or {}, "extra": extra or {},
\* "user": user or {}; t is the calling thread
ExceptionEvent(t, id, a) ==
    [event_id |-> id, level |-> a.level, event_type |-> "error",
     message |-> a.exception,
     trace |-> TraceContext(a.span), baggage |-> BaggageContext(a.baggage),
     tags |-> OrEmpty(a.tags), extra |-> OrEmpty(a.extra), user |-> OrEmpty(a.user)]

\* capture_message, event_data: it has no "user"
MessageEvent(t, id, a) ==
    [event_id |-> id, level |-> a.level, event_type |-> "message",
     message |-> a.message,
     trace |-> TraceContext(a.span), baggage |-> NoDict,
     tags |-> OrEmpty(a.tags), extra |-> OrEmpty(a.extra)]

\* event_id = str(uuid.uuid4()); ...; self._send_event(event_data);
\* return event_id
Capture(op, t, a, event, outcome) ==
    LET r == SendEvent(event, outcome)
    IN  /\ uuidCount' = uuidCount + 1
        /\ sent' = r.posts
        /\ issued' = IF r.raised = "none" THEN Append(issued, event.event_id)
                     ELSE issued
        /\ last' = Returned(op, t, [a EXCEPT !.printed = r.printed],
                            IF r.raised = "none" THEN event.event_id ELSE NoId,
                            r.raised, "")
        /\ Traced(1)
        /\ UNCHANGED <<ctxVars, client, intVars>>

capture_exception(t, a, outcome) ==
    /\ uuidCount < MaxEvents
    /\ Capture("capture_exception", t, a,
               ExceptionEvent(t, Uuid4(uuidCount), a), outcome)

capture_message(t, a, outcome) ==
    /\ uuidCount < MaxEvents
    /\ Capture("capture_message", t, a,
               MessageEvent(t, Uuid4(uuidCount), a), outcome)

----------------------------------------------------------------------------
(* client.py: __init__, flush, close *)

\* TelescopeClient(dsn, project_id, sample_rate=..., enable_tracing=...,
\* otlp_endpoint=...): the object the calls are made on from now on
client_init(t, a) ==
    /\ cli' = [sample_rate |-> a.sample_rate, enable_tracing |-> a.enable_tracing,
               otlp_endpoint |-> a.otlp_endpoint, session |-> "open",
               pending |-> 0]
    /\ sent' = <<>>
    /\ last' = Called("client_init", t, a, EmptyDict)
    /\ UNCHANGED <<ctxVars, client, uuidCount, issued, intVars, capPc, snap>>

\* flush(): if self.enable_tracing: get_tracer_provider().force_flush(...).
\* The result is the client afterwards and the steps taken, in order;
\* force_flush hands the pending spans to the exporter and raises nothing
Flush(c) ==
    IF c.enable_tracing
    THEN [c |-> [c EXCEPT !.pending = 0], steps |-> <<"flush", "force_flush">>]
    ELSE [c |-> c, steps |-> <<"flush">>]

\* A variant of Close: the session is released before the flush.
CloseReleaseFirst(c) ==
    LET f == Flush([c EXCEPT !.session = "closed"])
    IN  [c |-> f.c, steps |-> <<"session.close">> \o f.steps]

\* close(): self.flush(); if hasattr(self, "session"): self.session.close()
Close(c) ==
    LET f == Flush(c)
    IN  [c |-> [f.c EXCEPT !.session = "closed"],
         steps |-> f.steps \o <<"session.close">>]

flush(t) ==
    /\ cli' = Flush(cli).c
    /\ sent' = <<>>
    /\ last' = Returned("flush", t, [steps |-> Flush(cli).steps, before |-> cli],
                        NoId, "none", "None")
    /\ UNCHANGED <<ctxVars, client, uuidCount, issued, intVars, capPc, snap>>

close(t) ==
    /\ cli' = Close(cli).c
    /\ sent' = <<>>
    /\ last' = Returned("close", t, [steps |-> Close(cli).steps, before |-> cli],
                        NoId, "none", "None")
    /\ UNCHANGED <<ctxVars, client, uuidCount, issued, intVars, capPc, snap>>

----------------------------------------------------------------------------
(* client.py: a capture call, statement by statement, for calls that overlap *)

\* event_id = str(uuid.uuid4()); event_data = {...}: the locals of the call
capture_begin(t, op, a) ==
    /\ capPc[t].pc = "idle"
    /\ uuidCount < MaxEvents
    /\ uuidCount' = uuidCount + 1
    /\ capPc' = [capPc EXCEPT ![t] =
                    [pc |-> "send", op |-> op, call |-> a,
                     event |-> IF op = "capture_exception"
                               THEN ExceptionEvent(t, Uuid4(uuidCount), a)
                               ELSE MessageEvent(t, Uuid4(uuidCount), a),
                     result |-> EmptyDict]]
    /\ last' = Called("capture_begin", t, a, EmptyDict)
    /\ UNCHANGED <<ctxVars, client, sent, issued, intVars, cli, snap>>

\* self._send_event(event_data)
capture_send(t, outcome) ==
    /\ capPc[t].pc = "send"
    /\ capPc' = [capPc EXCEPT ![t] =
                    [@ EXCEPT !.pc = "return",
                              !.result = SendEvent(capPc[t].event, outcome)]]
    /\ cli' = [cli EXCEPT !.pending = IF Exporting(cli) THEN @ + 1 ELSE @]
    /\ last' = Called("capture_send", t, EmptyDict, EmptyDict)
    /\ UNCHANGED <<ctxVars, client, uuidCount, sent, issued, intVars, snap>>

\* return event_id
capture_return(t) ==
    /\ capPc[t].pc = "return"
    /\ capPc' = [capPc EXCEPT ![t] = NotCapturing]
    /\ sent' = capPc[t].result.posts
    /\ issued' = Append(issued, capPc[t].event.event_id)
    /\ last' = Returned("capture_return", t,
                        [op |-> capPc[t].op, call |-> capPc[t].call],
                        IF capPc[t].result.raised = "none"
                        THEN capPc[t].event.event_id ELSE NoId,
                        capPc[t].result.raised, "")
    /\ UNCHANGED <<ctxVars, client, uuidCount, intVars, cli, snap>>

----------------------------------------------------------------------------
(* context.py: set_client; decorators.py: capture_errors *)

\* _local.client = client
set_client(t) ==
    /\ client' = [client EXCEPT ![t] = TRUE]
    /\ sent' = <<>>
    /\ last' = Called("set_client", t, EmptyDict, EmptyDict)
    /\ UNCHANGED <<ctxVars, uuidCount, issued, intVars, cliVars>>

\* get_client(): getattr(_local, "client", None), in the calling thread
get_client(t) == IF client[t] THEN "client" ELSE "None"

get_client_call(t) ==
    /\ sent' = <<>>
    /\ last' = Returned("get_client", t, EmptyDict, NoId, "none", get_client(t))
    /\ UNCHANGED <<ctxVars, client, uuidCount, issued, intVars, cliVars>>

FuncError == "ValueError"

\* A variant of HasClient: a client is bound to every thread.
HasClientAlways(t) == TRUE

\* client = get_client(); if not client: ...
HasClient(t) == client[t]

\* A variant of AfterCapture: the exception is never raised again.
AfterCaptureSuppress(reraise) == "none"

\* if reraise: raise; return None.  What the wrapper raises after the capture
AfterCapture(reraise) == IF reraise THEN FuncError ELSE "none"

\* The wrapper of capture_errors(level, tags, extra, reraise) around a
\* function that returns "result" or raises FuncError
capture_errors(t, a, func, outcome) ==
    IF HasClient(t) /\ func = "raise"
    THEN /\ uuidCount < MaxEvents
         /\ LET event == ExceptionEvent(t, Uuid4(uuidCount),
                             [exception |-> FuncError, span |-> NoSpan, baggage |-> EmptyDict, level |-> a.level,
                              tags |-> a.tags, extra |-> a.extra, user |-> NoDict])
                r == SendEvent(event, outcome)
                raised == IF r.raised # "none" THEN r.raised
                          ELSE AfterCapture(a.reraise)
            IN  /\ uuidCount' = uuidCount + 1
                /\ sent' = r.posts
                /\ issued' = IF r.raised = "none"
                             THEN Append(issued, event.event_id) ELSE issued
                /\ last' = Returned("capture_errors", t,
                                [call |-> a, func |-> func, bound |-> client[t]],
                                NoId, raised,
                                IF raised = "none" THEN "None" ELSE "")
         /\ Traced(1)
         /\ UNCHANGED <<ctxVars, client, intVars>>
    ELSE /\ sent' = <<>>
         /\ last' = Returned("capture_errors", t,
                             [call |-> a, func |-> func, bound |-> client[t]], NoId,
                             IF func = "raise" THEN FuncError ELSE "none",
                             IF func = "raise" THEN "" ELSE "result")
         /\ UNCHANGED <<ctxVars, client, uuidCount, issued, intVars, cliVars>>

----------------------------------------------------------------------------
(* context.py: TelescopeContextMiddleware *)

\* str(d) of a decimal digit
Digit(d) ==
    CASE d = 0 -> "0" [] d = 1 -> "1" [] d = 2 -> "2" [] d = 3 -> "3"
      [] d = 4 -> "4" [] d = 5 -> "5" [] d = 6 -> "6" [] d = 7 -> "7"
      [] d = 8 -> "8" [] d = 9 -> "9"

RECURSIVE Str(_)
\* str(n) of an int n >= 0
Str(n) == IF n < 10 THEN Digit(n) ELSE Str(n \div 10) \o Digit(n % 10)

\* hasattr(request, "user") and hasattr(request.user, "is_authenticated"),
\* and request.user.is_authenticated
Authenticated(request) ==
    request.user.present /\ request.user.is_authenticated

\* set_user_context(user_id=str(request.user.id),
\* username=getattr(request.user, "username", ""), email=getattr(..., ""))
RequestUser(request) ==
    [user_id |-> Str(request.user.id), username |-> request.user.username,
     email |-> request.user.email, extra_fields |-> EmptyDict]

\* set_tags(url=..., method=..., user_agent=...)
RequestTags(request) ==
    [k \in {"url", "method", "user_agent"} |->
        CASE k = "url" -> request.path
          [] k = "method" -> request.method
          [] k = "user_agent" -> request.user_agent]

\* set_extra(request_id=..., ip_address=...)
RequestExtra(request) ==
    [k \in {"request_id", "ip_address"} |->
        CASE k = "request_id" -> request.request_id
          [] k = "ip_address" -> request.ip_address]

\* TelescopeContextMiddleware.__call__(request, response): clear_context(),
\* set_client(self.client), set_user_context(...) for an authenticated user,
\* set_tags(...), set_extra(...); return response
MiddlewareCall(st, request) ==
    LET s0 == StoreClear(st)
        s1 == IF Authenticated(request) THEN StoreUser(s0, RequestUser(request))
              ELSE s0
        s2 == StoreUpdate(s1, "tags", RequestTags(request))
    IN  StoreUpdate(s2, "extra", RequestExtra(request))

middleware(t, request) ==
    /\ Commit(t, MiddlewareCall(Store(t), request), stack[t])
    /\ merged' = [merged EXCEPT ![t] =
                     MergeInto(MergeInto(StartMerge, "tags", RequestTags(request)),
                               "extra", RequestExtra(request))]
    /\ client' = [client EXCEPT ![t] = TRUE]
    /\ sent' = <<>>
    /\ last' = [Returned("middleware", t, request, NoId, "none", "response")
                  EXCEPT !.before = get_context(t)]
    /\ UNCHANGED <<uuidCount, issued, intVars, cliVars>>

----------------------------------------------------------------------------
(* decorators.py: trace_function *)

\* One call made on the span of a wrapper call, or the call of the function
SpanStep(op, arg) == [op |-> op, arg |-> arg]

\* isinstance(value, (str, int, float, bool))
IsSimple(value) == value = "result"

\* A variant of OnException: the status is set but the exception is not
\* recorded on the span.
OnExceptionStatusOnly(log, e) ==
    log \o <<SpanStep("set_status", "ERROR"), SpanStep("raise", e)>>

\* except Exception as e: span.record_exception(e);
\* span.set_status(Status(StatusCode.ERROR, str(e))); raise
OnException(log, e) ==
    log \o <<SpanStep("record_exception", e), SpanStep("set_status", "ERROR"),
             SpanStep("raise", e)>>

\* result = func(*args, **kwargs); if capture_result and isinstance(...):
\* span.set_attribute("function.result", result); return result
OnResult(log, capture_result, result) ==
    log \o (IF capture_result /\ IsSimple(result)
            THEN <<SpanStep("set_attribute", "function.result")>> ELSE <<>>)
        \o <<SpanStep("return", result)>>

\* The wrapper of trace_function(name, tags, capture_args, capture_result)
\* around a function func: what it does on its span, in order, and how it
\* ends.  func.binds is whether inspect can bind the arguments, func.outcome
\* is "ok" or the exception the function raises, func.result what it returns
TraceFunction(a, func) ==
    LET started == <<SpanStep("start_span", IF a.name = None THEN "module.func" ELSE a.name),
                     SpanStep("set_attributes", "function.name")>>
        tagged == started \o (IF a.tags # NoDict
                              THEN <<SpanStep("set_attribute", "tags")>> ELSE <<>>)
        bound == tagged \o (IF a.capture_args /\ func.binds
                            THEN <<SpanStep("set_attribute", "function.args")>>
                            ELSE <<>>)
        called == Append(bound, SpanStep("call", "func"))
        done == IF func.outcome = "ok"
                THEN OnResult(called, a.capture_result, func.result)
                ELSE OnException(called, func.outcome)
        end == done[Len(done)]
    IN  [log |-> Append(done, SpanStep("end", "span")),
         raised |-> IF end.op = "raise" THEN end.arg ELSE "none",
         value |-> IF end.op = "return" THEN end.arg ELSE ""]

trace_function(t, a, func) ==
    LET r == TraceFunction(a, func)
    IN  /\ sent' = <<>>
        /\ last' = Returned("trace_function", t,
                            [call |-> a, func |-> func, result |-> r],
                            NoId, r.raised, r.value)
        /\ Traced(1)
        /\ UNCHANGED <<ctxVars, client, uuidCount, issued, intVars>>

----------------------------------------------------------------------------
(* context.py: capture_context_in_exception *)

\* context.get(key, {}): the sub-map of the context, or a new empty dict
SubMap(t, key) == IF ctx[t][key] = NoRef THEN EmptyDict ELSE heap[ctx[t][key]]

\* additional_context.pop(key) if key in additional_context
Popped(additional, key) ==
    IF key \in DOMAIN additional THEN additional[key] ELSE EmptyDict

\* additional_context after the pops
Remaining(additional) == [k \in DOMAIN additional \ TopKeys |-> additional[k]]

\* A variant of Enriched: a value the context store holds is kept when the
\* caller supplies the same key.
EnrichedStoreWins(t, additional, key) ==
    LET d == Overlay(Popped(additional, key), SubMap(t, key))
    IN  IF key = "extra" THEN Overlay(Remaining(additional), d) ELSE d

\* user.update(...), tags.update(...), extra.update(...); extra.update(rest)
Enriched(t, additional, key) ==
    LET d == Overlay(SubMap(t, key), Popped(additional, key))
    IN  IF key = "extra" THEN Overlay(d, Remaining(additional)) ELSE d

\* user if user else None
OrNone(d) == IF DOMAIN d = {} THEN NoDict ELSE Some(d)

\* capture_context_in_exception(exception, **additional_context): without a
\* client it returns at once; with one, the updates are made on the context's
\* own sub-maps and the exception is captured with the result
capture_context_in_exception(t, exception, additional, outcome) ==
    IF ~HasClient(t)
    THEN /\ sent' = <<>>
         /\ last' = [Returned("capture_context_in_exception", t,
                              [call |-> additional, bound |-> client[t]],
                              NoId, "none", "None")
                        EXCEPT !.before = get_context(t)]
         /\ UNCHANGED <<ctxVars, client, uuidCount, issued, intVars, cliVars>>
    ELSE /\ uuidCount < MaxEvents
         /\ LET event == ExceptionEvent(t, Uuid4(uuidCount),
                             [exception |-> exception, span |-> NoSpan, baggage |-> EmptyDict, level |-> "error",
                              tags |-> OrNone(Enriched(t, additional, "tags")),
                              extra |-> OrNone(Enriched(t, additional, "extra")),
                              user |-> OrNone(Enriched(t, additional, "user"))])
                r == SendEvent(event, outcome)
            IN  /\ heap' = [i \in Objs |->
                              IF \E k \in TopKeys : ctx[t][k] = i
                              THEN Enriched(t, additional,
                                            CHOOSE k \in TopKeys : ctx[t][k] = i)
                              ELSE heap[i]]
                /\ uuidCount' = uuidCount + 1
                /\ sent' = r.posts
                /\ issued' = IF r.raised = "none"
                             THEN Append(issued, event.event_id) ELSE issued
                /\ last' = [Returned("capture_context_in_exception", t,
                                [call |-> additional, bound |-> client[t]],
                                NoId, r.raised, IF r.raised = "none" THEN "None" ELSE "")
                             EXCEPT !.before = get_context(t)]
         /\ Traced(1)
         /\ UNCHANGED <<ctx, stack, merged, client, intVars>>

----------------------------------------------------------------------------
(* decorators.py: retry_with_telemetry *)

\* An error the wrapped function raised: its type and the call that raised it
NoError == [type |-> "none", call |-> 0]

Error(type, call) == [type |-> type, call |-> call]

\* One step of a wrapper: a call of the function, an event or a sleep
Step(kind, level, n) == [kind |-> kind, level |-> level, n |-> n]

\* A variant of Retryable: every error is retried.
RetryableAlways(e, exceptions) == TRUE

\* except exceptions as e: the error's type is one of the configured types
Retryable(e, exceptions) == e \in exceptions

\* A variant of MoreAttempts: the last attempt is handled like the others.
MoreAttemptsInclusive(attempt, max_retries) == attempt <= max_retries

\* if attempt < max_retries
MoreAttempts(attempt, max_retries) == attempt < max_retries

\* A variant of NextDelay: the backoff is added to the delay.
NextDelayAdditive(current_delay, backoff) == current_delay + backoff

\* current_delay *= backoff
NextDelay(current_delay, backoff) == current_delay * backoff

\* tags of the message sent before a retry
RetryTags(attempt, max_retries) ==
    [k \in {"function", "retry_attempt", "attempt", "max_retries"} |->
        CASE k = "function" -> "func"
          [] k = "retry_attempt" -> TRUE
          [] k = "attempt" -> attempt + 1
          [] k = "max_retries" -> max_retries]

\* tags of the message sent when a retry succeeded
SuccessTags(attempt) ==
    [k \in {"function", "retry_success", "attempts"} |->
        CASE k = "function" -> "func"
          [] k = "retry_success" -> TRUE
          [] k = "attempts" -> attempt + 1]

\* tags of the exception captured when the retries are used up
ExhaustedTags(attempt) ==
    [k \in {"function", "retry_exhausted", "total_attempts"} |->
        CASE k = "function" -> "func"
          [] k = "retry_exhausted" -> TRUE
          [] k = "total_attempts" -> attempt + 1]

\* extra of the exception captured when the retries are used up; final_delay
\* is the quotient current_delay / backoff, kept as the pair of its operands
ExhaustedExtra(attempt, max_retries, current_delay, backoff) ==
    [k \in {"retry"} |->
        [max_retries |-> max_retries, total_attempts |-> attempt + 1,
         final_delay |-> <<current_delay, backoff>>]]

\* The state of a wrapper call in thread t with n0 event ids generated before
StartCall(t, n0, bound) ==
    [t |-> t, n0 |-> n0, bound |-> bound, log |-> <<>>, events |-> <<>>,
     sleeps |-> <<>>, calls |-> 0, error |-> NoError, raised |-> NoError,
     value |-> "", after_loop |-> FALSE]

\* client.capture_message / client.capture_exception inside a wrapper: the
\* event is sent and the call raises what _send_event raises
Emit(r, kind, level, a, outcome) ==
    LET id == Uuid4(r.n0 + Len(r.events))
        event == IF kind = "capture_message" THEN MessageEvent(r.t, id, a)
                 ELSE ExceptionEvent(r.t, id, a)
        s == SendEvent(event, outcome)
    IN  [r EXCEPT !.events = @ \o s.posts,
                  !.log = Append(@, Step(kind, level, Len(r.events) + 1)),
                  !.raised = IF s.raised = "none" THEN r.raised
                             ELSE Error(s.raised, 0)]

\* The wrapped function is called
CallFunc(r) ==
    [r EXCEPT !.calls = @ + 1, !.log = Append(@, Step("call", "", r.calls + 1))]

\* time.sleep(current_delay)
Sleep(r, current_delay) ==
    [r EXCEPT !.sleeps = Append(@, current_delay),
              !.log = Append(@, Step("sleep", "", current_delay))]

\* for attempt in range(max_retries + 1): ...; raise last_exception.
\* After the loop last_exception is None unless an attempt set it, and
\* raise None raises TypeError.
\* func[i] is what the i-th call of the wrapped function does: "ok" or the
\* type of the error it raises
RECURSIVE RetryLoop(_, _, _, _, _, _)
RetryLoop(a, func, outcome, attempt, current_delay, r) ==
    IF attempt > a.max_retries
    THEN [r EXCEPT !.after_loop = TRUE,
                   !.raised = IF r.error = NoError THEN Error("TypeError", 0)
                              ELSE r.error]
    ELSE
    LET o == func[attempt + 1]
        r1 == CallFunc(r)
    IN  IF o = "ok"
        THEN LET r2 == IF attempt > 0 /\ r.bound
                       THEN Emit(r1, "capture_message", "info",
                                 [message |-> "succeeded after retries",
                                  level |-> "info", span |-> NoSpan, baggage |-> EmptyDict,
                                  tags |-> Some(SuccessTags(attempt)),
                                  extra |-> NoDict], outcome)
                       ELSE r1
             IN  IF r2.raised # NoError THEN r2 ELSE [r2 EXCEPT !.value = "result"]
        ELSE IF ~Retryable(o, a.exceptions)
        THEN [r1 EXCEPT !.raised = Error(o, attempt + 1)]
        ELSE
        LET r2 == [r1 EXCEPT !.error = Error(o, attempt + 1)]
        IN  IF MoreAttempts(attempt, a.max_retries)
            THEN LET r3 == IF r.bound
                           THEN Emit(r2, "capture_message", "warning",
                                     [message |-> "Retrying", level |-> "warning",
                                      span |-> NoSpan, baggage |-> EmptyDict,
                                      tags |-> Some(RetryTags(attempt, a.max_retries)),
                                      extra |-> NoDict], outcome)
                           ELSE r2
                 IN  IF r3.raised # NoError THEN r3
                     ELSE RetryLoop(a, func, outcome, attempt + 1,
                                    NextDelay(current_delay, a.backoff),
                                    Sleep(r3, current_delay))
            ELSE IF ~r.bound THEN [r2 EXCEPT !.raised = r2.error]
            ELSE IF a.backoff = 0
            THEN [r2 EXCEPT !.raised = Error("ZeroDivisionError", 0)]
            ELSE LET r3 == Emit(r2, "capture_exception", "error",
                                [exception |-> o, level |-> "error", span |-> NoSpan, baggage |-> EmptyDict,
                                 tags |-> Some(ExhaustedTags(attempt)),
                                 extra |-> Some(ExhaustedExtra(attempt,
                                            a.max_retries, current_delay, a.backoff)),
                                 user |-> NoDict], outcome)
                 IN  IF r3.raised # NoError THEN r3
                     ELSE [r3 EXCEPT !.raised = r3.error]

\* The result of a wrapper call r becomes the state
Finish(op, t, a, func, r) ==
    /\ uuidCount' = uuidCount + Len(r.events)
    /\ sent' = r.events
    /\ issued' = issued \o [i \in 1 .. Len(r.events) |-> r.events[i].event_id]
    /\ last' = Returned(op, t, [call |-> a, func |-> func, result |-> r],
                        NoId, r.raised.type, r.value)
    /\ Traced(Len(r.events))
    /\ UNCHANGED <<ctxVars, client, intVars>>

\* The wrapper of retry_with_telemetry(max_retries, delay, backoff, exceptions)
retry_with_telemetry(t, a, func, outcome) ==
    /\ uuidCount < MaxEvents
    /\ Finish("retry_with_telemetry", t, a, func,
              RetryLoop(a, func, outcome, 0, a.delay,
                        StartCall(t, uuidCount, client[t])))

----------------------------------------------------------------------------
(* decorators.py: performance_monitor *)

\* A variant of SlowExecution: a run of exactly threshold_ms is reported.
SlowExecutionInclusive(execution_time, threshold_ms) == execution_time >= threshold_ms

\* execution_time > threshold_ms
SlowExecution(execution_time, threshold_ms) == execution_time > threshold_ms

\* performance_tags, updated with the decorator's tags
PerformanceTags(tags) ==
    Overlay([k \in {"function", "module", "slow_execution"} |->
                CASE k = "function" -> "func"
                  [] k = "module" -> "app"
                  [] k = "slow_execution" -> TRUE],
            OrEmpty(tags))

\* extra of the slow-execution message
PerformanceExtra(execution_time, threshold_ms) ==
    [k \in {"performance"} |->
        [duration_ms |-> execution_time, threshold_ms |-> threshold_ms,
         function |-> "func"]]

\* The wrapper of performance_monitor(threshold_ms, tags) around a function
\* that returns ("ok") or raises FuncError after execution_time milliseconds
PerformanceMonitor(a, func, execution_time, outcome, r) ==
    LET r1 == CallFunc(r)
    IN  IF func # "ok"
        THEN [r1 EXCEPT !.raised = Error(FuncError, 1)]
        ELSE LET r2 == IF r.bound /\ SlowExecution(execution_time, a.threshold_ms)
                       THEN Emit(r1, "capture_message", "warning",
                                 [message |-> "Slow execution", level |-> "warning",
                                  span |-> NoSpan, baggage |-> EmptyDict,
                                  tags |-> Some(PerformanceTags(a.tags)),
                                  extra |-> Some(PerformanceExtra(execution_time,
                                                                  a.threshold_ms))],
                                 outcome)
                       ELSE r1
             IN  IF r2.raised # NoError THEN r2 ELSE [r2 EXCEPT !.value = "result"]

performance_monitor(t, a, func, execution_time, outcome) ==
    /\ uuidCount < MaxEvents
    /\ Finish("performance_monitor", t,
              [threshold_ms |-> a.threshold_ms, tags |-> a.tags,
               execution_time |-> execution_time], func,
              PerformanceMonitor(a, func, execution_time, outcome,
                                 StartCall(t, uuidCount, client[t])))

----------------------------------------------------------------------------
(* integrations/base.py: Integration, IntegrationRegistry *)

\* The integration classes: the default LoggingIntegration, the auto-enabling
\* DjangoIntegration and RedisIntegration, and an Integration subclass of the
\* application
Classes ==
    {"LoggingIntegration", "DjangoIntegration", "RedisIntegration", "CustomIntegration"}

\* Integration.identifier = None
NoIdentifier == ""

Identifiers == {"logging", "redis", "custom"}

\* DjangoIntegration (like Flask and FastAPI) defines no identifier and does
\* not derive from Integration
HasIdentifier(cls) == cls # "DjangoIntegration"

\* cls.identifier
Identifier(cls) ==
    CASE cls = "LoggingIntegration" -> "logging"
      [] cls = "RedisIntegration" -> "redis"
      [] cls = "CustomIntegration" -> "custom"

\* What a hook (setup_once, setup) does when it is called: it returns, it
\* raises DidNotEnable, or it raises another Exception
HookOutcomes == {"ok", "DidNotEnable", "Exception"}

Idle == [pc |-> "idle", id |-> NoIdentifier]

\* A variant of RegistryHandle: only DidNotEnable is caught.
RegistryHandleSoftOnly(outcome) ==
    CASE outcome = "ok" -> [raised |-> "none", settled |-> "installed"]
      [] outcome = "DidNotEnable" -> [raised |-> "none", settled |-> "skipped"]
      [] outcome = "Exception" -> [raised |-> "Exception", settled |-> "failed"]

\* IntegrationRegistry.setup, the try statement: what the caller sees raised
\* and what is logged ("Enabled integration", "Did not enable integration",
\* "Error setting up integration")
RegistryHandle(outcome) ==
    CASE outcome = "ok" -> [raised |-> "none", settled |-> "installed"]
      [] outcome = "DidNotEnable" -> [raised |-> "none", settled |-> "skipped"]
      [] outcome = "Exception" -> [raised |-> "none", settled |-> "failed"]

\* IntegrationRegistry.register
register(t, id) ==
    /\ registered' = IF id # NoIdentifier THEN registered \cup {id} ELSE registered
    /\ last' = Called("register", t, id, EmptyDict)
    /\ UNCHANGED <<processed, installed, regPc, onceCount, setupCount, settled, handled>>

\* A variant of Unprocessed: the _processed check is missing.
UnprocessedAlways(id) == id # NoIdentifier

\* if integration.identifier and integration.identifier not in self._processed
Unprocessed(id) == id # NoIdentifier /\ id \notin processed

\* IntegrationRegistry.setup(client, integration): the check
registry_setup(t, id) ==
    /\ regPc[t].pc = "idle"
    /\ regPc' = [regPc EXCEPT ![t] =
                    IF Unprocessed(id) THEN [pc |-> "setup_once", id |-> id] ELSE Idle]
    /\ last' = Returned("registry_setup", t, id, NoId, "none",
                        IF Unprocessed(id) THEN "" ELSE "None")
    /\ UNCHANGED <<registered, processed, installed, onceCount, setupCount,
                   settled, handled>>

\* The call leaves the try statement with hook outcome o: an exception that
\* is not caught ends the call, otherwise _processed.add is next
LeaveTry(op, t, id, o) ==
    LET r == RegistryHandle(o)
    IN  /\ settled' = [settled EXCEPT ![id] = r.settled]
        /\ regPc' = [regPc EXCEPT ![t] =
                        IF r.raised = "none" THEN [pc |-> "add_processed", id |-> id]
                        ELSE Idle]
        /\ last' = Returned(op, t, id, NoId, r.raised, o)

\* integration.setup_once()
registry_setup_once(t, o) ==
    /\ regPc[t].pc = "setup_once"
    /\ LET id == regPc[t].id
       IN  /\ onceCount' = [onceCount EXCEPT ![id] = @ + 1]
           /\ IF o = "ok"
              THEN /\ regPc' = [regPc EXCEPT ![t] = [pc |-> "setup", id |-> id]]
                   /\ last' = Returned("setup_once", t, id, NoId, "none", o)
                   /\ UNCHANGED settled
              ELSE LeaveTry("setup_once", t, id, o)
    /\ UNCHANGED <<registered, processed, installed, setupCount, handled>>

\* A variant of InstalledAfter: the identifier is added whatever setup did.
InstalledAfterAlways(id, o) == installed \cup {id}

\* integration.setup(client); self._installed.add(integration.identifier):
\* the add is skipped when setup(client) raises
InstalledAfter(id, o) == IF o = "ok" THEN installed \cup {id} ELSE installed

\* IntegrationRegistry.get_installed: self._installed.copy()
get_installed == installed

\* IntegrationRegistry.is_installed
is_installed(id) == id \in installed

\* integration.setup(client); self._installed.add(integration.identifier)
registry_setup_client(t, o) ==
    /\ regPc[t].pc = "setup"
    /\ LET id == regPc[t].id
       IN  /\ setupCount' = [setupCount EXCEPT ![id] = @ + 1]
           /\ installed' = InstalledAfter(id, o)
           /\ LeaveTry("setup", t, id, o)
    /\ UNCHANGED <<registered, processed, onceCount, handled>>

\* self._processed.add(integration.identifier); the call returns
registry_add_processed(t) ==
    /\ regPc[t].pc = "add_processed"
    /\ processed' = processed \cup {regPc[t].id}
    /\ regPc' = [regPc EXCEPT ![t] = Idle]
    /\ last' = Returned("add_processed", t, regPc[t].id, NoId, "none", "None")
    /\ UNCHANGED <<registered, installed, onceCount, setupCount, settled, handled>>

----------------------------------------------------------------------------
(* integrations/registry.py *)

DefaultIntegrations == <<"LoggingIntegration">>

\* The head of _AUTO_ENABLING_INTEGRATIONS and one of its later entries
AutoEnablingIntegrations == <<"DjangoIntegration", "RedisIntegration">>

\* A version tuple that is None
NoVersion == <<>>

\* _MIN_VERSIONS.get(identifier): None is <<>>
MinVersion(id) == IF id = "redis" THEN <<3, 0>> ELSE NoVersion

RECURSIVE TupleLess(_, _)
\* version < min_version on tuples of integers
TupleLess(v, w) ==
    IF Len(v) = 0 THEN Len(w) > 0
    ELSE IF Len(w) = 0 THEN FALSE
    ELSE IF v[1] # w[1] THEN v[1] < w[1]
    ELSE TupleLess(Tail(v), Tail(w))

\* A variant of CheckMinimumVersion: a version equal to the minimum is
\* refused like a lower one.
CheckMinimumVersionAbove(id, version) ==
    IF version = NoVersion THEN "DidNotEnable"
    ELSE IF MinVersion(id) = NoVersion THEN "none"
    ELSE IF ~TupleLess(MinVersion(id), version) THEN "DidNotEnable"
    ELSE "none"

\* _check_minimum_version: what it raises
CheckMinimumVersion(id, version) ==
    IF version = NoVersion THEN "DidNotEnable"
    ELSE IF MinVersion(id) = NoVersion THEN "none"
    ELSE IF TupleLess(version, MinVersion(id)) THEN "DidNotEnable"
    ELSE "none"

\* _check_minimum_version(integration, version, package) called with the
\* class of an integration whose identifier is id; package is only part of
\* the message of the DidNotEnable
check_minimum_version(t, id, version) ==
    /\ last' = Returned("_check_minimum_version", t,
                        [id |-> id, version |-> version], NoId,
                        CheckMinimumVersion(id, version), "")
    /\ UNCHANGED intVars

\* The version setup_integrations passes to _check_minimum_version:
\* _check_minimum_version(type(integration), None)
DetectedVersion(id) == NoVersion

\* What getattr(import_module(module), cls) does in the host: it returns
\* the class ("ok") or raises
ImportOutcomes == {"ok", "ImportError", "DidNotEnable"}

Imported(outcome) == outcome = "ok"

\* iter_default_integrations: except (DidNotEnable, SyntaxError)
ImportCaught(outcome) == outcome \in {"DidNotEnable", "SyntaxError"}

\* A host in which every integration module can be imported
AllImported == [cls \in Classes |-> "ok"]

RECURSIVE AddDefaults(_, _, _)
\* for integration_cls in iter_default_integrations(...): the classes after
\* position k, added to the state d = [order, used, raised] of the call.
\* Reading the identifier of a class that has none raises AttributeError.
AddDefaults(strings, k, d) ==
    IF k > Len(strings) \/ d.raised # "none" THEN d
    ELSE LET cls == strings[k]
             d1 == [d EXCEPT !.resolved = Append(@, cls)]
         IN  IF ~Imported(d.host[cls])
             THEN IF ImportCaught(d.host[cls])
                  THEN AddDefaults(strings, k + 1, d1)
                  ELSE [d1 EXCEPT !.raised = d.host[cls]]
             ELSE IF ~HasIdentifier(cls)
             THEN [d1 EXCEPT !.raised = "AttributeError"]
             ELSE IF \E j \in DOMAIN d.order : Identifier(d.order[j]) = Identifier(cls)
             THEN AddDefaults(strings, k + 1, d1)
             ELSE AddDefaults(strings, k + 1,
                     [d1 EXCEPT !.order = Append(@, cls),
                                !.used = @ \cup {Identifier(cls)}])

RECURSIVE DictOrder(_, _)
\* {integration.identifier: integration for integration in integrations}: the
\* keys in the order of their first occurrence
DictOrder(integrations, acc) ==
    IF Len(integrations) = 0 THEN acc
    ELSE DictOrder(Tail(integrations),
            IF \E j \in DOMAIN acc : acc[j] = Head(integrations) THEN acc
            ELSE Append(acc, Head(integrations)))

NotAttempted == [exc |-> "none", outcome |-> "not attempted", default |-> FALSE]

\* A variant of OnSoftSkip: DidNotEnable is swallowed for every integration.
OnSoftSkipSwallow(id, used) == "swallowed"

\* except DidNotEnable: if identifier not in used_as_default_integration: raise
OnSoftSkip(id, used) == IF id \notin used THEN "reraised" ELSE "swallowed"

\* except Exception: logger.error(...)
OnError(id) == "logged"

RECURSIVE Activate(_, _, _, _, _, _)
\* for identifier, integration in integrations_dict.items(): the entries
\* after position k; hook[id] is what the integration's setup_once() does
Activate(order, k, used, disabled, hook, r) ==
    IF k > Len(order) \/ r.raised # "none" THEN r
    ELSE
    LET cls == order[k]
        id == Identifier(cls)
        checked == CheckMinimumVersion(id, DetectedVersion(id))
        exc == IF checked # "none" THEN checked
               ELSE IF hook[id] = "ok" THEN "none" ELSE hook[id]
        outcome == IF cls \in disabled THEN "ignored"
                   ELSE IF exc = "none" THEN "enabled"
                   ELSE IF exc = "DidNotEnable" THEN OnSoftSkip(id, used)
                   ELSE OnError(id)
    IN  Activate(order, k + 1, used, disabled, hook,
            [r EXCEPT
                !.hist[id] = [exc |-> IF cls \in disabled THEN "none" ELSE exc,
                              outcome |-> outcome, default |-> id \in used],
                !.attempted = Append(@, id),
                !.once[id] = IF cls \notin disabled /\ checked = "none"
                             THEN @ + 1 ELSE @,
                !.enabled = IF outcome = "enabled" THEN @ \cup {id} ELSE @,
                !.raised = IF outcome = "reraised" THEN exc ELSE "none"])

\* iter_default_integrations, all_import_strings: _DEFAULT_INTEGRATIONS, and
\* _AUTO_ENABLING_INTEGRATIONS after them if the caller asked for those
ImportStrings(with_auto_enabling_integrations) ==
    DefaultIntegrations \o
        (IF with_auto_enabling_integrations THEN AutoEnablingIntegrations
         ELSE <<>>)

\* setup_integrations(integrations, with_defaults,
\* with_auto_enabling_integrations, disabled_integrations): the result
\* [raised, enabled: the keys of the dict returned, hist, attempted, once]
SetupIntegrations(a, hook) ==
    LET explicit == [order |-> DictOrder(a.integrations, <<>>), used |-> {},
                     raised |-> "none", host |-> a.host, resolved |-> <<>>]
        d == IF a.with_defaults
             THEN AddDefaults(ImportStrings(a.with_auto_enabling_integrations),
                              1, explicit)
             ELSE explicit
        start == [raised |-> d.raised, enabled |-> {},
                  hist |-> [i \in Identifiers |-> NotAttempted],
                  attempted |-> <<>>, once |-> [i \in Identifiers |-> 0],
                  order |-> d.order, resolved |-> d.resolved]
    IN  Activate(d.order, 1, d.used, a.disabled_integrations, hook, start)

setup_integrations(t, a, hook) ==
    LET r == SetupIntegrations(a, hook)
    IN  /\ onceCount' = [i \in Identifiers |-> onceCount[i] + r.once[i]]
        /\ handled' = handled \cup
                {r.hist[i].outcome : i \in {j \in Identifiers : r.hist[j].exc # "none"}}
        /\ last' = Returned("setup_integrations", t,
                            [call |-> a, result |-> r, hook |-> hook],
                            NoId, r.raised, "")
        /\ UNCHANGED <<registered, processed, installed, regPc, setupCount, settled>>

----------------------------------------------------------------------------
(* Arguments the calls are made with *)

UserArgs ==
    { [user_id |-> "u1", username |-> None, email |-> None, extra_fields |-> EmptyDict],
      [user_id |-> None, username |-> None, email |-> "a@x", extra_fields |-> EmptyDict],
      [user_id |-> "", username |-> "", email |-> "",
       extra_fields |-> [k \in {"tier"} |-> "premium"]] }

TagArgs ==
    { EmptyDict,
      [k \in {"env"} |-> "prod"],
      [k \in {"env"} |-> "dev"],
      [k \in {"component"} |-> "payment"] }

ExtraArgs ==
    { [k \in {"request_id"} |-> "r1"],
      [k \in {"request_id"} |-> "r2"] }

\* with_context(**context_data), among them the docstring's
\* with_context(user_id="123", component="auth")
ContextData ==
    { EmptyDict,
      [k \in {"tags"} |-> [x \in {"component"} |-> "payment"]],
      [k \in {"extra"} |-> [x \in {"request_id"} |-> "r1"]],
      [k \in {"user"} |-> [user_id |-> "u1", username |-> None, email |-> None,
                           extra_fields |-> EmptyDict]],
      [k \in {"user_id", "component"} |-> IF k = "user_id" THEN "123" ELSE "auth"] }

ExceptionArgs ==
    [exception : {"KeyError"}, level : {"error"}, span : {NoSpan}, baggage : {EmptyDict},
     tags : {NoDict, Some([k \in {"component"} |-> "payment"]),
             Some([k \in {"env"} |-> "dev"])},
     extra : {NoDict, Some([k \in {"request_id"} |-> "r2"])},
     user : {NoDict, Some([k \in {"id"} |-> "u2"])},
     printed : {""}]

MessageArgs ==
    [message : {"hello"}, level : {"info"}, span : {NoSpan}, baggage : {EmptyDict},
     tags : {NoDict, Some([k \in {"component"} |-> "payment"])},
     extra : {NoDict, Some([k \in {"request_id"} |-> "r2"])},
     printed : {""}]

DecoratorArgs ==
    [level : {"error"}, tags : {NoDict, Some([k \in {"component"} |-> "payment"])},
     extra : {NoDict}, reraise : BOOLEAN]

SetupIntegrationsArgs ==
    { a \in [integrations : {<<>>, <<"CustomIntegration">>, <<"LoggingIntegration">>,
                             <<"CustomIntegration", "RedisIntegration">>},
             with_defaults : BOOLEAN,
             with_auto_enabling_integrations : BOOLEAN,
             disabled_integrations : {{}, {"CustomIntegration"}},
             host : {AllImported}] :
        a.with_auto_enabling_integrations => a.with_defaults }

\* Calls of setup_integrations in hosts where the module of an integration
\* cannot be imported, or raises DidNotEnable when it is
DiscoveryArgs ==
    [integrations : {<<>>, <<"CustomIntegration">>},
     with_defaults : BOOLEAN,
     with_auto_enabling_integrations : BOOLEAN,
     disabled_integrations : {{}},
     host : {h \in [Classes -> ImportOutcomes] :
                h["CustomIntegration"] = "ok" /\ h["DjangoIntegration"] = "ok"}]

\* The span trace.get_current_span() returns: none, a recording span, or a
\* span that is not recording (not sampled, or a remote parent)
Spans ==
    {NoSpan} \cup [recording : BOOLEAN, trace_id : {1, 43981, 2147483647},
                   span_id : {1, 255}]

\* What baggage.get_all() returns at the call
Baggages == {EmptyDict, [k \in {"tenant"} |-> "acme"]}

TraceExceptionArgs ==
    [exception : {"KeyError"}, level : {"error"}, span : Spans, baggage : Baggages,
     tags : {NoDict}, extra : {NoDict}, user : {NoDict}, printed : {""}]

TraceMessageArgs ==
    [message : {"hello"}, level : {"info"}, span : Spans, baggage : Baggages,
     tags : {NoDict}, extra : {NoDict}, printed : {""}]

RetryableErrors == {"ConnectionError"}

RetryArgs ==
    [max_retries : 0 .. MaxRetries, delay : {1, 3}, backoff : {0, 2},
     exceptions : {RetryableErrors}]

\* What the calls of the wrapped function do, one after the other; the
\* wrapper makes no call after one that returned or raised FuncError, so
\* those are all written "ok"
FuncBehaviours ==
    {f \in [1 .. MaxRetries + 1 -> {"ok", "ConnectionError", FuncError}] :
        \A i \in 1 .. MaxRetries :
            f[i] \notin RetryableErrors => f[i + 1] = "ok"}

MonitorArgs ==
    [threshold_ms : {50}, tags : {NoDict, Some([k \in {"component"} |-> "api"])}]

\* measured milliseconds
ExecutionTimes == {10, 50, 100}

\* capture_context_in_exception(e, **additional_context), among them the
\* docstring's operation="risky_operation"
AdditionalContext ==
    { EmptyDict,
      [k \in {"operation"} |-> "risky_operation"],
      [k \in {"tags"} |-> [x \in {"component"} |-> "payment"]],
      [k \in {"tags", "extra", "attempt_number"} |->
          CASE k = "tags" -> [x \in {"env"} |-> "dev"]
            [] k = "extra" -> [x \in {"attempt_number", "order"} |-> "o1"]
            [] k = "attempt_number" -> "3"] }

\* The POST of a wrapper's events is answered with 200 or raises
WrapperOutcomes == {o \in Outcomes : o.status \in {0, 200}}

\* What setup_once() of each integration does
Hooks ==
    {[i \in Identifiers |-> o] : o \in HookOutcomes}

----------------------------------------------------------------------------
(* Spec: the context store and the client used by one thread *)

Init ==
    /\ ctx = [t \in Threads |-> NoContext]
    /\ heap = [i \in Objs |-> EmptyDict]
    /\ stack = [t \in Threads |-> <<>>]
    /\ merged = [t \in Threads |-> StartMerge]
    /\ client = [t \in Threads |-> FALSE]
    /\ uuidCount = 0
    /\ sent = <<>>
    /\ issued = <<>>
    /\ registered = {}
    /\ processed = {}
    /\ installed = {}
    /\ regPc = [t \in Threads |-> Idle]
    /\ onceCount = [i \in Identifiers |-> 0]
    /\ setupCount = [i \in Identifiers |-> 0]
    /\ settled = [i \in Identifiers |-> "registered"]
    /\ handled = {}
    /\ capPc = [t \in Threads |-> NotCapturing]
    /\ cli = DefaultClient
    /\ snap = NoSnapshot
    /\ last = NoCall

vars == <<ctx, heap, stack, merged, client, uuidCount, sent, issued,
          registered, processed, installed, regPc, onceCount, setupCount,
          settled, handled, capPc, cli, snap, last>>

SetUserContext == \E a \in UserArgs : set_user_context("t1", a)
SetTags == \E d \in TagArgs : set_tags("t1", d)
SetExtra == \E d \in ExtraArgs : set_extra("t1", d)
ClearContext == clear_context("t1")

SetClient == set_client("t1")
CaptureException ==
    \E a \in ExceptionArgs, o \in Outcomes : capture_exception("t1", a, o)
CaptureMessage ==
    \E a \in MessageArgs, o \in Outcomes : capture_message("t1", a, o)
CaptureErrors ==
    \E a \in DecoratorArgs, f \in {"return", "raise"}, o \in Outcomes :
        capture_errors("t1", a, f, o)

Next ==
    \/ SetUserContext
    \/ SetTags
    \/ SetExtra
    \/ ClearContext
    \/ SetClient
    \/ CaptureException
    \/ CaptureMessage
    \/ CaptureErrors

Spec == Init /\ [][Next]_vars

----------------------------------------------------------------------------
(* SpecScope: with_context scopes around the calls of one thread *)

ScopeSetUserContext ==
    \E a \in {x \in UserArgs : x.user_id # ""} : set_user_context("t1", a)
ScopeSetTags ==
    \E d \in {x \in TagArgs : x # EmptyDict /\ "dev" \notin {x[k] : k \in DOMAIN x}} :
        set_tags("t1", d)
ScopeClearContext == clear_context("t1")
EnterScope == \E data \in ContextData : with_context_enter("t1", data)
ExitScope == \E how \in {"return", "raise"} : with_context_exit("t1", how)

NextScope ==
    \/ ScopeSetUserContext
    \/ ScopeSetTags
    \/ ScopeClearContext
    \/ EnterScope
    \/ ExitScope

SpecScope == Init /\ [][NextScope]_vars

----------------------------------------------------------------------------
(* SpecInt: activation, one call at a time *)

NoThreadInSetup == \A t \in Threads : regPc[t].pc = "idle"

Other == UNCHANGED <<ctxVars, captureVars, cliVars>>

Register == \E id \in Identifiers \cup {NoIdentifier} :
    register("t1", id) /\ NoThreadInSetup /\ Other
SetupCall == \E id \in Identifiers \cup {NoIdentifier} :
    registry_setup("t1", id) /\ NoThreadInSetup /\ Other
SetupOnce == \E t \in Threads, o \in HookOutcomes : registry_setup_once(t, o) /\ Other
SetupClient == \E t \in Threads, o \in HookOutcomes : registry_setup_client(t, o) /\ Other
AddProcessed == \E t \in Threads : registry_add_processed(t) /\ Other

NextInt ==
    \/ Register
    \/ SetupCall
    \/ SetupOnce
    \/ SetupClient
    \/ AddProcessed

SpecInt == Init /\ [][NextInt]_vars

----------------------------------------------------------------------------
(* SpecRace: activation by two threads at once *)

RaceSetupCall == \E t \in Threads, id \in {"logging", "custom"} :
    registry_setup(t, id) /\ Other

RaceSetupIntegrationsCall ==
    \E a \in {x \in SetupIntegrationsArgs :
                /\ x.disabled_integrations = {}
                /\ ~x.with_auto_enabling_integrations
                /\ Len(x.integrations) = IF x.with_defaults THEN 0 ELSE 1} :
        /\ regPc["t1"].pc = "idle"
        /\ setup_integrations("t1", a, [i \in Identifiers |-> "ok"])
        /\ Other

NextRace ==
    \/ RaceSetupCall
    \/ SetupOnce
    \/ SetupClient
    \/ AddProcessed
    \/ RaceSetupIntegrationsCall

SpecRace == Init /\ [][NextRace]_vars

----------------------------------------------------------------------------
(* SpecSetup: setup_integrations, and the registry activating one integration *)

SetupIntegrationsCall == \E a \in SetupIntegrationsArgs, hook \in Hooks :
    setup_integrations("t1", a, hook) /\ NoThreadInSetup /\ Other
OneSetupCall == \E id \in {"custom", "logging"} :
    registry_setup("t1", id) /\ NoThreadInSetup /\ Other

NextSetup ==
    \/ SetupIntegrationsCall
    \/ OneSetupCall
    \/ SetupOnce
    \/ SetupClient
    \/ AddProcessed

SpecSetup == Init /\ [][NextSetup]_vars

----------------------------------------------------------------------------
(* SpecDiscovery: setup_integrations in hosts that lack integration modules *)

DiscoveryCall ==
    \E a \in {x \in DiscoveryArgs : x.with_defaults}, hook \in Hooks :
        setup_integrations("t1", a, hook) /\ Other

ExplicitOnlyCall ==
    \E a \in {x \in DiscoveryArgs : ~x.with_defaults}, hook \in Hooks :
        setup_integrations("t1", a, hook) /\ Other

\* request.user: absent, anonymous, or authenticated with an int id
RequestUsers ==
    { [present |-> FALSE, is_authenticated |-> FALSE, id |-> 0, username |-> "", email |-> ""],
      [present |-> TRUE, is_authenticated |-> FALSE, id |-> 0, username |-> "", email |-> ""],
      [present |-> TRUE, is_authenticated |-> TRUE, id |-> 7, username |-> "alice", email |-> ""],
      [present |-> TRUE, is_authenticated |-> TRUE, id |-> 12, username |-> "", email |-> "b@x"] }

\* The requests the middleware handles
Requests ==
    [user : RequestUsers, path : {"/a", "/b"}, method : {"GET"},
     user_agent : {""}, request_id : {"r1", "r2"}, ip_address : {"10.0.0.1"}]

HandleRequest == \E request \in Requests : middleware("t1", request)

\* What the handler of a request adds to the context of its thread
HandlerSetUserContext ==
    \E a \in {x \in UserArgs : x.extra_fields # EmptyDict} :
        set_user_context("t1", a)

HandlerSetTags ==
    \E d \in {x \in TagArgs : "component" \in DOMAIN x} : set_tags("t1", d)

HandlerSetExtra ==
    set_extra("t1", [k \in {"order"} |-> "o1"])

NextMiddleware ==
    \/ HandleRequest
    \/ HandlerSetUserContext
    \/ HandlerSetTags
    \/ HandlerSetExtra

SpecMiddleware == Init /\ [][NextMiddleware]_vars

\* trace_function(name, tags, capture_args, capture_result)
TraceFunctionArgs ==
    [name : {None, "db.get_user"},
     tags : {NoDict, Some([k \in {"component"} |-> "database"])},
     capture_args : BOOLEAN, capture_result : BOOLEAN]

\* The wrapped function: it returns a str or an object that is no simple
\* type, or raises an Exception; its arguments can be bound or not
TracedFunctions ==
    [outcome : {"ok", "ValueError", "ConnectionError"},
     result : {"result", "object"}, binds : BOOLEAN]

RetrySetClient == set_client("t1")

TraceFunctionCall ==
    \E a \in TraceFunctionArgs, func \in TracedFunctions :
        trace_function("t1", a, func)

NextTraceFunction ==
    \/ TraceFunctionCall
    \/ RetrySetClient

SpecTraceFunction == Init /\ [][NextTraceFunction]_vars

\* retry_with_telemetry with any max_retries an int can be, negative ones
\* among them
AnyRetryArgs ==
    [max_retries : -1 .. MaxRetries, delay : {1}, backoff : {0, 2},
     exceptions : {RetryableErrors}]

AnyRetryCall ==
    \E a \in AnyRetryArgs, func \in FuncBehaviours, outcome \in WrapperOutcomes :
        retry_with_telemetry("t1", a, func, outcome)

NextRetry ==
    \/ RetrySetClient
    \/ AnyRetryCall

SpecRetry == Init /\ [][NextRetry]_vars

\* The longest version tuple and the numbers a version is made of
MaxVersionLen == 3

VersionParts == {0, 3, 4}

\* The versions detected in a host: None, or a tuple of integers
Versions ==
    {NoVersion} \cup UNION {[1 .. n -> VersionParts] : n \in 1 .. MaxVersionLen}

CheckVersion ==
    \E id \in Identifiers, version \in Versions :
        check_minimum_version("t1", id, version) /\ Other

DefaultsSetupCall ==
    \E a \in {x \in SetupIntegrationsArgs : x.with_defaults}, hook \in Hooks :
        setup_integrations("t1", a, hook) /\ Other

NextVersion ==
    \/ CheckVersion
    \/ DefaultsSetupCall

SpecVersion == Init /\ [][NextVersion]_vars

NextDiscovery ==
    \/ DiscoveryCall
    \/ ExplicitOnlyCall

SpecDiscovery == Init /\ [][NextDiscovery]_vars

----------------------------------------------------------------------------
(* SpecTrace: capture calls made while a span may be active *)

TraceCaptureException ==
    \E a \in TraceExceptionArgs, o \in Outcomes : capture_exception("t1", a, o)

TraceCaptureMessage ==
    \E a \in TraceMessageArgs, o \in Outcomes : capture_message("t1", a, o)

NextTrace ==
    \/ TraceCaptureException
    \/ TraceCaptureMessage

SpecTrace == Init /\ [][NextTrace]_vars

----------------------------------------------------------------------------
(* SpecThreads: two threads use the context store, in any interleaving *)

\* The tags and extra a thread sets: each thread has values of its own
ThreadTags(t) == [k \in {"env"} |-> IF t = "t1" THEN "prod" ELSE "dev"]

ThreadExtra(t) == [k \in {"request_id"} |-> IF t = "t1" THEN "r1" ELSE "r2"]

ThreadUser(t) ==
    [user_id |-> IF t = "t1" THEN "u1" ELSE "u2", username |-> None,
     email |-> None, extra_fields |-> EmptyDict]

ThreadSetUserContext == \E t \in Threads : set_user_context(t, ThreadUser(t))

ThreadSetTags == \E t \in Threads : set_tags(t, ThreadTags(t))

ThreadSetExtra == \E t \in Threads : set_extra(t, ThreadExtra(t))

ThreadClearContext == \E t \in Threads : clear_context(t)

\* one scope at a time in each thread
ThreadEnterScope ==
    \E t \in Threads :
        /\ Len(stack[t]) = 0
        /\ with_context_enter(t, [k \in {"tags"} |-> [x \in {"component"} |-> t]])

ThreadExitScope == \E t \in Threads : with_context_exit(t, "return")

NextThreads ==
    \/ ThreadSetUserContext
    \/ ThreadSetTags
    \/ ThreadSetExtra
    \/ ThreadClearContext
    \/ ThreadEnterScope
    \/ ThreadExitScope

SpecThreads == Init /\ [][NextThreads]_vars

----------------------------------------------------------------------------
(* SpecTasks: two tasks (coroutines) that run, interleaved, on one thread.  *)
(* _local is a threading.local: the tasks of a thread find the same         *)
(* attributes in it.  Each ContextManager object belongs to the task that   *)
(* opened it; a scope of stack[TaskThread] names its owner.                 *)

TaskThread == "t1"

Tasks == {"a", "b"}

\* The dict objects in use
Live == UNION {Refs(ctx[u]) \cup StackRefs(stack[u]) : u \in Threads}

\* Names for new dict objects that nothing in use has
FreeSlots ==
    {p \in Threads \X (0 .. MaxDepth) :
        \A k \in TopKeys : NewObj(p[1], p[2], k) \notin Live}

FreeSlot == CHOOSE p \in FreeSlots : TRUE

\* The store the tasks of TaskThread work on
TaskStore ==
    [c |-> ctx[TaskThread], h |-> heap, t |-> FreeSlot[1], d |-> FreeSlot[2]]

TaskCalled(op, k, arg) ==
    Called(op, TaskThread, [task |-> k, arg |-> arg], EmptyDict)

\* The scopes of TaskThread that task k has open
Owned(k) == {i \in DOMAIN stack[TaskThread] : stack[TaskThread][i].owner = k}

\* s without its i-th scope
Without(s, i) == SubSeq(s, 1, i - 1) \o SubSeq(s, i + 1, Len(s))

task_set_tags(k, tags) ==
    /\ FreeSlots # {}
    /\ Commit(TaskThread, StoreUpdate(TaskStore, "tags", tags), stack[TaskThread])
    /\ merged' = [merged EXCEPT ![TaskThread] = MergeInto(@, "tags", tags)]
    /\ last' = TaskCalled("set_tags", k, tags)
    /\ Quiet

task_clear_context(k) ==
    /\ Commit(TaskThread, StoreClear(Store(TaskThread)), stack[TaskThread])
    /\ merged' = [merged EXCEPT ![TaskThread] = StartMerge]
    /\ last' = TaskCalled("clear_context", k, EmptyDict)
    /\ Quiet

\* task k enters with with_context(**data): and is suspended inside the block
task_with_context_enter(k, data) ==
    /\ FreeSlots # {}
    /\ Owned(k) = {}
    /\ Len(stack[TaskThread]) < MaxDepth
    /\ LET copy == SavedCopy(TaskThread)
       IN  Commit(TaskThread, ApplyContextData(TaskStore, data),
                  Append(stack[TaskThread],
                         [saved |-> copy.c, before |-> get_context(TaskThread),
                          owner |-> k]))
    /\ merged' = [merged EXCEPT ![TaskThread] =
                    MergeInto(MergeInto(@, "tags", GetOr(data, "tags")),
                              "extra", GetOr(data, "extra"))]
    /\ last' = TaskCalled("with_context_enter", k, data)
    /\ Quiet

\* task k leaves its block: __exit__ of its ContextManager
task_with_context_exit(k) ==
    /\ Owned(k) # {}
    /\ LET i == CHOOSE j \in Owned(k) : TRUE
           scope == stack[TaskThread][i]
       IN  Commit(TaskThread,
                  [c |-> IF ctx[TaskThread].exists THEN scope.saved
                         ELSE ctx[TaskThread],
                   h |-> heap],
                  Without(stack[TaskThread], i))
    /\ merged' = [merged EXCEPT ![TaskThread] = NoMerge]
    /\ last' = TaskCalled("with_context_exit", k, EmptyDict)
    /\ Quiet

\* The tags a task sets: each task has a value of its own
TaskTags(k) == [x \in {"job"} |-> k]

TaskSetTags == \E k \in Tasks : task_set_tags(k, TaskTags(k))

TaskClearContext == \E k \in Tasks : task_clear_context(k)

TaskEnterScope ==
    \E k \in Tasks :
        task_with_context_enter(k, [x \in {"tags"} |-> [y \in {"scope"} |-> k]])

TaskExitScope == \E k \in Tasks : task_with_context_exit(k)

NextTasks ==
    \/ TaskSetTags
    \/ TaskClearContext
    \/ TaskEnterScope
    \/ TaskExitScope

SpecTasks == Init /\ [][NextTasks]_vars

----------------------------------------------------------------------------
(* SpecDeco: the wrappers of decorators.py called by one thread *)

DecoSetClient == set_client("t1")

RetryCall ==
    \E a \in RetryArgs, func \in FuncBehaviours, outcome \in WrapperOutcomes :
        retry_with_telemetry("t1", a, func, outcome)

PerformanceMonitorCall ==
    \E a \in MonitorArgs, func \in {"ok", "raise"}, ms \in ExecutionTimes,
       outcome \in WrapperOutcomes :
        performance_monitor("t1", a, func, ms, outcome)

DecoSetTags == set_tags("t1", [k \in {"env"} |-> "prod"])

CaptureContextInException ==
    \E additional \in AdditionalContext, outcome \in WrapperOutcomes :
        capture_context_in_exception("t1", FuncError, additional, outcome)

NextDeco ==
    \/ DecoSetClient
    \/ DecoSetTags
    \/ RetryCall
    \/ PerformanceMonitorCall
    \/ CaptureErrors
    \/ CaptureContextInException

SpecDeco == Init /\ [][NextDeco]_vars

----------------------------------------------------------------------------
(* SpecCapture: two threads make capture calls on the one client, and the   *)
(* statements of their calls interleave                                     *)

OverlapExceptionArgs ==
    {a \in ExceptionArgs : a.extra = NoDict /\ a.user = NoDict}

OverlapMessageArgs == {a \in MessageArgs : a.extra = NoDict}

OverlapOutcomes == {o \in Outcomes : o.status \in {0, 200, 500}}

BeginCaptureException ==
    \E t \in Threads, a \in OverlapExceptionArgs :
        capture_begin(t, "capture_exception", a)

BeginCaptureMessage ==
    \E t \in Threads, a \in OverlapMessageArgs :
        capture_begin(t, "capture_message", a)

SendCapture == \E t \in Threads, o \in OverlapOutcomes : capture_send(t, o)

ReturnCapture == \E t \in Threads : capture_return(t)

NextCapture ==
    \/ BeginCaptureException
    \/ BeginCaptureMessage
    \/ SendCapture
    \/ ReturnCapture

SpecCapture == Init /\ [][NextCapture]_vars

----------------------------------------------------------------------------
(* SpecClient: one thread constructs a client, captures with it, flushes    *)
(* and closes it                                                            *)

\* sample_rate in percent: 0.0, 0.5, 1.0
ClientArgs ==
    [sample_rate : {0, 50, 100}, enable_tracing : BOOLEAN,
     otlp_endpoint : BOOLEAN]

ClientInit == \E a \in ClientArgs : client_init("t1", a)

ClientCaptureException ==
    \E a \in OverlapExceptionArgs, o \in Outcomes : capture_exception("t1", a, o)

ClientCaptureMessage ==
    \E a \in OverlapMessageArgs, o \in Outcomes : capture_message("t1", a, o)

ClientFlush == flush("t1")

ClientClose == close("t1")

NextClient ==
    \/ ClientInit
    \/ ClientCaptureException
    \/ ClientCaptureMessage
    \/ ClientFlush
    \/ ClientClose

SpecClient == Init /\ [][NextClient]_vars

----------------------------------------------------------------------------
(* SpecBinding: two threads bind the client, look it up and run functions   *)
(* wrapped by capture_errors                                                *)

BindClient == \E t \in Threads : set_client(t)

LookUpClient == \E t \in Threads : get_client_call(t)

WrappedCall ==
    \E t \in Threads, a \in DecoratorArgs, f \in {"return", "raise"},
       o \in WrapperOutcomes :
        capture_errors(t, a, f, o)

NextBinding ==
    \/ BindClient
    \/ LookUpClient
    \/ WrappedCall

SpecBinding == Init /\ [][NextBinding]_vars

----------------------------------------------------------------------------
(* SpecSnapshot: a thread reads its context with get_context() and keeps    *)
(* the dict while it goes on calling the store                              *)

SnapshotSetUserContext ==
    \E a \in {x \in UserArgs : x.user_id = "u1"} : set_user_context("t1", a)
SnapshotSetTags ==
    \E d \in {x \in TagArgs : "env" \in DOMAIN x} : set_tags("t1", d)
SnapshotSetExtra ==
    \E d \in {x \in ExtraArgs : x.request_id = "r1"} : set_extra("t1", d)
GetContext == get_context_call("t1")
ReturnedUpdate ==
    \E key \in {"tags", "extra"}, d \in {[k \in {"injected"} |-> "x"]} :
        returned_update(key, d)
ReturnedSet ==
    \E key \in {"tags"}, d \in {[k \in {"injected"} |-> "y"]} :
        returned_set(key, d)

NextSnapshot ==
    \/ SnapshotSetUserContext
    \/ SnapshotSetTags
    \/ SnapshotSetExtra
    \/ GetContext
    \/ ReturnedUpdate
    \/ ReturnedSet

SpecSnapshot == Init /\ [][NextSnapshot]_vars

----------------------------------------------------------------------------
(* Claims about the capture pipeline and the context store *)

\* The event the most recent call handed to the transport
Event == sent[Len(sent)]

\* C1: the event capture_exception hands to the transport carries the context
\* store's tags, extra and user, overlaid by the tags, extra and user of the call.
C1_EventCarriesContext ==
    last.op = "capture_exception" =>
        /\ Len(sent) = 1
        /\ Event.tags = Overlay(GetOr(get_context(last.t), "tags"), OrEmpty(last.arg.tags))
        /\ Event.extra = Overlay(GetOr(get_context(last.t), "extra"), OrEmpty(last.arg.extra))
        /\ Event.user = Overlay(GetOr(get_context(last.t), "user"), OrEmpty(last.arg.user))

\* C2: when a with_context scope exits, by return or by raise, get_context() equals
\* get_context() before the scope was entered, key by key and value by value.
C2_ScopeRestoresContext ==
    last.op = "with_context_exit" => get_context(last.t) = last.before

\* C3: with no clear_context and no scope in between, the tags and the extra of
\* get_context() are the cumulative merge of the set_tags and set_extra calls:
\* the last call that set a key decides its value, the other keys persist.
C3_CumulativeMerge ==
    \A t \in Threads :
        merged[t].ok =>
            /\ GetOr(get_context(t), "tags") = merged[t].tags
            /\ GetOr(get_context(t), "extra") = merged[t].extra

\* C3 happens: a later set_tags has overridden env and left component alone.
C3_Witness ==
    /\ merged["t1"].ok
    /\ last.op = "set_tags"
    /\ last.arg = [k \in {"env"} |-> "dev"]
    /\ GetOr(get_context("t1"), "tags") =
            [k \in {"env", "component"} |-> IF k = "env" THEN "dev" ELSE "payment"]
    /\ GetOr(get_context("t1"), "extra") = [k \in {"request_id"} |-> "r2"]

C5_CaptureNeverRaises ==
    /\ last.op \in {"capture_exception", "capture_message"} =>
            /\ last.raised = "none"
            /\ last.ret # NoId
            /\ Len(issued) > 0 /\ issued[Len(issued)] = last.ret
    /\ \A i, j \in DOMAIN issued : i # j => issued[i] # issued[j]

\* C5 happens: a second capture call has returned after a POST that raised.
C5_Witness ==
    /\ last.op \in {"capture_exception", "capture_message"}
    /\ last.arg.printed = "Error sending event to Telescope"
    /\ Len(issued) = 2
    /\ last.ret = issued[2]

----------------------------------------------------------------------------
(* Claims about the integration lifecycle *)

\* C6: in a sequence of IntegrationRegistry.setup calls, setup_once() and
\* setup(client) each execute at most once for an identifier, whatever the first
\* attempt's outcome, and a later call for the identifier changes nothing.
C6_ActivationIdempotent ==
    /\ [](\A i \in Identifiers : onceCount[i] <= 1 /\ setupCount[i] <= 1)
    /\ [][(/\ NoThreadInSetup
           /\ last'.op = "registry_setup"
           /\ last'.arg \in processed)
          => UNCHANGED <<registered, processed, installed, regPc, onceCount,
                         setupCount, settled>>]_vars

\* C6 happens: a second call for an identifier whose activation failed has
\* returned, and each hook was called once.
C6_Witness ==
    /\ last.op = "registry_setup"
    /\ last.arg = "custom"
    /\ "custom" \in processed
    /\ settled["custom"] = "failed"
    /\ onceCount["custom"] = 1 /\ setupCount["custom"] = 1
    /\ NoThreadInSetup

\* C7: in one process setup_once() executes at most once for an identifier,
\* whichever way the integration is activated and however often.
C7_SetupOnceAtMostOnce ==
    \A i \in Identifiers : onceCount[i] <= 1

\* C8: when two threads call IntegrationRegistry.setup for one identifier at the
\* same time, only one of them passes the already-processed check, and
\* setup_once() and setup(client) each run at most once in total.
C8_ActivationSerialized ==
    /\ \A t, u \in Threads :
            (t # u /\ regPc[t].pc # "idle" /\ regPc[u].pc # "idle")
                => regPc[t].id # regPc[u].id
    /\ \A i \in Identifiers : onceCount[i] + setupCount[i] <= 2

Result == last.arg.result

\* C9: in setup_integrations a DidNotEnable raised for an integration added
\* from the default set is swallowed, the integration is not enabled and the
\* call goes on; raised for an integration the caller passed, it is raised to
\* the caller.
C9_SoftSkipPolicy ==
    last.op = "setup_integrations" =>
        \A i \in Identifiers :
            Result.hist[i].exc = "DidNotEnable" =>
                /\ i \notin Result.enabled
                /\ IF Result.hist[i].default
                   THEN Result.hist[i].outcome = "swallowed" /\ last.raised = "none"
                   ELSE Result.hist[i].outcome = "reraised"
                            /\ last.raised = "DidNotEnable"
                            /\ Result.attempted[Len(Result.attempted)] = i

\* C9 happens: one call has swallowed the soft-skip of the default integration
\* and a call has raised the soft-skip of an integration passed to it.
C9_Witness ==
    /\ last.op = "setup_integrations"
    /\ handled = {"swallowed", "reraised"}
    /\ Result.hist["logging"].outcome = "swallowed"
    /\ Result.hist["logging"].default

Position(seq, x) == CHOOSE k \in DOMAIN seq : seq[k] = x

\* C10: an Exception other than DidNotEnable raised by setup_once() or
\* setup(client) is not raised to the caller, the integration is not installed
\* or enabled, and the integrations after it are still attempted.
C10_FailureIsolated ==
    /\ \A i \in Identifiers : settled[i] = "failed" => i \notin installed
    /\ (last.op \in {"setup_once", "setup"} /\ last.value = "Exception") =>
            /\ last.raised = "none"
            /\ regPc[last.t] = [pc |-> "add_processed", id |-> last.arg]
    /\ last.op = "setup_integrations" =>
            \A i \in Identifiers :
                Result.hist[i].exc = "Exception" =>
                    /\ last.raised # "Exception"
                    /\ i \notin Result.enabled
                    /\ Position(Result.attempted, i) < Len(Result.order)
                            => Len(Result.attempted) > Position(Result.attempted, i)

\* C10 happens: setup(client) of one integration raised an Exception, its call
\* returned, and another integration was installed by a later call.
C10_Witness ==
    /\ settled["custom"] = "failed"
    /\ setupCount["custom"] = 1
    /\ "custom" \in processed
    /\ last.op = "add_processed"
    /\ last.arg = "logging"
    /\ "logging" \in installed

----------------------------------------------------------------------------
(* Claims about the wrappers of decorators.py *)

Call == last.arg.call

Func == last.arg.func

RECURSIVE Pow(_, _)
Pow(b, n) == IF n = 0 THEN 1 ELSE b * Pow(b, n - 1)

\* The first k calls of the function raise a retryable error
FirstFail(k) == \A i \in 1 .. k : Func[i] \in Call.exceptions

\* The steps of k failed attempts, each followed by a warning and a sleep
RetrySteps(k, j) ==
    LET i == ((j - 1) \div 3) + 1
        m == (j - 1) % 3
    IN  CASE m = 0 -> Step("call", "", i)
          [] m = 1 -> Step("capture_message", "warning", i)
          [] m = 2 -> Step("sleep", "", Call.delay * Pow(Call.backoff, i - 1))

\* C11: with a client bound, when the function raises a retryable error on its
\* first k calls (1 <= k <= max_retries) and then returns, the wrapper emits k
\* warning messages, each after a failed call and before the sleep and the
\* retry, then one info message, captures no exception, returns the result,
\* and sleeps delay, delay*backoff, ..., delay*backoff^(k-1).
C11_RetryThenSuccess ==
    (last.op = "retry_with_telemetry" /\ Result.bound) =>
        \A k \in 1 .. Call.max_retries :
            (FirstFail(k) /\ Func[k + 1] = "ok") =>
                /\ Result.log = [j \in 1 .. 3 * k + 2 |->
                        IF j <= 3 * k THEN RetrySteps(k, j)
                        ELSE IF j = 3 * k + 1 THEN Step("call", "", k + 1)
                        ELSE Step("capture_message", "info", k + 1)]
                /\ Len(sent) = k + 1
                /\ \A i \in 1 .. k : sent[i].level = "warning"
                                        /\ sent[i].event_type = "message"
                /\ sent[k + 1].level = "info" /\ sent[k + 1].event_type = "message"
                /\ Result.sleeps = [i \in 1 .. k |-> Call.delay * Pow(Call.backoff, i - 1)]
                /\ last.raised = "none"
                /\ last.value = "result"

\* C11 happens: max_retries 2, delay 1, backoff 2, two failures then success:
\* two warnings, one info, sleeps 1 and 2.
C11_Witness ==
    /\ last.op = "retry_with_telemetry"
    /\ Result.bound
    /\ Call.max_retries = 2 /\ Call.delay = 1 /\ Call.backoff = 2
    /\ Func = <<"ConnectionError", "ConnectionError", "ok">>
    /\ Result.sleeps = <<1, 2>>
    /\ Len(sent) = 3
    /\ last.value = "result"

C13_NotRetryablePropagates ==
    last.op = "retry_with_telemetry" =>
        \A j \in 1 .. Call.max_retries + 1 :
            (FirstFail(j - 1) /\ Func[j] \notin Call.exceptions \cup {"ok"}) =>
                /\ Result.calls = j
                /\ Result.raised = Error(Func[j], j)
                /\ last.raised = Func[j]
                /\ Result.log[Len(Result.log)] = Step("call", "", j)
                /\ Len(Result.sleeps) = j - 1
                /\ Len(sent) = IF Result.bound THEN j - 1 ELSE 0
                /\ \A i \in DOMAIN sent : sent[i].level = "warning"

\* C13 happens: the second call raises an error that is not retryable, after
\* one retry.
C13_Witness ==
    /\ last.op = "retry_with_telemetry"
    /\ Result.bound
    /\ Call.max_retries = 2
    /\ Func[1] = "ConnectionError" /\ Func[2] = FuncError
    /\ Result.calls = 2
    /\ last.raised = FuncError

\* C14: with a client bound, when the work returns after more than threshold_ms
\* the wrapper of performance_monitor emits one warning message with
\* duration_ms, threshold_ms and the function name, and when it returns within
\* threshold_ms it emits nothing.
C14_SlowExecutionReported ==
    (last.op = "performance_monitor" /\ Result.bound /\ Func = "ok") =>
        /\ last.value = "result"
        /\ IF Call.execution_time > Call.threshold_ms
           THEN /\ Len(sent) = 1
                /\ sent[1].level = "warning"
                /\ sent[1].event_type = "message"
                /\ sent[1].extra["performance"] =
                        [duration_ms |-> Call.execution_time,
                         threshold_ms |-> Call.threshold_ms,
                         function |-> "func"]
                /\ sent[1].tags["function"] = "func"
           ELSE sent = <<>>

\* C14 happens: work of 100 ms under a threshold of 50 ms was reported.
C14_Witness ==
    /\ last.op = "performance_monitor"
    /\ Result.bound /\ Func = "ok"
    /\ Call.execution_time = 100 /\ Call.threshold_ms = 50
    /\ Len(sent) = 1

\* C15: with a client bound, when the work raises after more than threshold_ms
\* the warning message is emitted all the same, and the error is raised.
C15_SlowFailureReported ==
    (/\ last.op = "performance_monitor"
     /\ Result.bound /\ Func = "raise"
     /\ Call.execution_time > Call.threshold_ms) =>
        /\ Len(sent) = 1
        /\ sent[1].level = "warning"
        /\ last.raised = FuncError

\* C16: with a client bound, when the function wrapped by capture_errors
\* raises, capture_exception is called once with the exception and the
\* decorator's level, tags and extra, and then the exception is raised again if
\* reraise is true and None is returned if it is false; when the function
\* returns, nothing is captured and its result is returned.
C16_CaptureErrorsCaptures ==
    (last.op = "capture_errors" /\ last.arg.bound) =>
        IF Func = "raise"
        THEN /\ Len(sent) = 1
             /\ sent[1].event_type = "error"
             /\ sent[1].message = FuncError
             /\ sent[1].level = Call.level
             /\ sent[1].tags = OrEmpty(Call.tags)
             /\ sent[1].extra = OrEmpty(Call.extra)
             /\ IF Call.reraise
                THEN last.raised = FuncError
                ELSE last.raised = "none" /\ last.value = "None"
        ELSE /\ sent = <<>>
             /\ last.raised = "none"
             /\ last.value = "result"

\* C16 happens: the function raised, the exception was captured with the
\* decorator's tags and suppressed because reraise is false.
C16_Witness ==
    /\ last.op = "capture_errors"
    /\ last.arg.bound
    /\ Func = "raise"
    /\ ~Call.reraise
    /\ Call.tags # NoDict
    /\ Len(sent) = 1
    /\ last.value = "None"

\* C17: when no client is bound, the wrapper of capture_errors returns what the
\* function returns and raises what it raises, whatever reraise is, and sends
\* nothing; capture_context_in_exception returns without sending and without
\* raising.
C17_NoClientNoCapture ==
    /\ (last.op = "capture_errors" /\ ~last.arg.bound) =>
            /\ sent = <<>> /\ issued = <<>>
            /\ IF Func = "raise"
               THEN last.raised = FuncError
               ELSE last.raised = "none" /\ last.value = "result"
    /\ (last.op = "capture_context_in_exception" /\ ~last.arg.bound) =>
            /\ sent = <<>> /\ issued = <<>>
            /\ last.raised = "none"

\* C17 happens: without a client the wrapped function raised, reraise being
\* false, and the wrapper raised the same exception.
C17_Witness ==
    /\ last.op = "capture_errors"
    /\ ~last.arg.bound
    /\ Func = "raise"
    /\ ~Call.reraise
    /\ last.raised = FuncError
    /\ ctx["t1"].exists

----------------------------------------------------------------------------
(* Claims about trace correlation *)

HexIndex(c) == CHOOSE i \in DOMAIN HexChars : HexChars[i] = c

\* The number a string of hexadecimal digits stands for
RECURSIVE HexValue(_)
HexValue(d) ==
    IF Len(d) = 0 THEN 0
    ELSE 16 * HexValue(SubSeq(d, 1, Len(d) - 1)) + (HexIndex(d[Len(d)]) - 1)

\* C18: the event of capture_exception and of capture_message has a trace
\* context with the current span's trace_id as 32 and span_id as 16 hexadecimal
\* digits when that span is recording, and an empty trace context when no span
\* is active or the span is not recording.
C18_TraceContext ==
    (last.op \in {"capture_exception", "capture_message"} /\ Len(sent) = 1) =>
        IF last.arg.span.recording
        THEN /\ DOMAIN Event.trace = {"trace_id", "span_id"}
             /\ Len(Event.trace.trace_id) = 32
             /\ Len(Event.trace.span_id) = 16
             /\ HexValue(Event.trace.trace_id) = last.arg.span.trace_id
             /\ HexValue(Event.trace.span_id) = last.arg.span.span_id
        ELSE Event.trace = EmptyDict

\* C18 happens: a message was captured inside a recording span with trace_id
\* 0xabcd and span_id 0xff.
C18_Witness ==
    /\ last.op = "capture_message"
    /\ last.arg.span = [recording |-> TRUE, trace_id |-> 43981, span_id |-> 255]
    /\ Len(sent) = 1
    /\ Event.trace.span_id = <<"0", "0", "0", "0", "0", "0", "0", "0",
                               "0", "0", "0", "0", "0", "0", "f", "f">>

----------------------------------------------------------------------------
(* Claims about the isolation of the context store *)

\* What thread t can observe of its store: get_context() and, by value, the
\* contexts its open scopes will restore
View(t) ==
    [context |-> get_context(t),
     exists |-> ctx[t].exists,
     scopes |-> [i \in DOMAIN stack[t] |-> Value(stack[t][i].saved, heap)]]

\* The dict objects thread t holds
Held(t) == Refs(ctx[t]) \cup StackRefs(stack[t])

\* C19: in every interleaving of the context calls of two threads, a call made
\* by one thread leaves what the other thread observes as it was, the threads
\* hold no dict object in common, and the tags and extra of each thread are
\* the merge of its own set_tags and set_extra calls.
C19_ThreadsIsolated ==
    /\ [](\A t, u \in Threads : t # u => Held(t) \cap Held(u) = {})
    /\ [](\A t \in Threads :
            (merged[t].ok /\ stack[t] = <<>>) =>
                /\ GetOr(get_context(t), "tags") = merged[t].tags
                /\ GetOr(get_context(t), "extra") = merged[t].extra)
    /\ [][\A u \in Threads : u # last'.t => View(u)' = View(u)]_vars

\* C19 happens: both threads have set their own tags and user, and one of
\* them has opened and left a scope since.
C19_Witness ==
    /\ DOMAIN get_context("t1") = {"tags", "user"}
    /\ get_context("t1").tags = [x \in {"env"} |-> "prod"]
    /\ get_context("t1").user = [x \in {"id"} |-> "u1"]
    /\ DOMAIN get_context("t2") = {"tags"}
    /\ "env" \in DOMAIN get_context("t2").tags
    /\ get_context("t2").tags["env"] = "dev"
    /\ last.op = "with_context_exit"
    /\ last.t = "t2"

\* C20: two tasks that interleave on one thread each own an isolated context:
\* a call made by one task (a tag, extra or user field it sets, a scope it
\* enters or leaves) leaves what get_context() returns in the other task as
\* it was.
C20_TasksIsolated ==
    [][\A k \in Tasks :
            k # last'.arg.task => get_context(TaskThread)' = get_context(TaskThread)]_vars

----------------------------------------------------------------------------
(* Claims about the client used by several threads, and its life cycle *)

\* C21: whatever the interleaving of the capture calls of several threads on
\* the shared client, a call that returns has sent exactly one event, the one
\* built from its own arguments under its own event id, it returns that id,
\* and no other call, finished or still running, uses the same id.
C21_ConcurrentCapturesKeepOwnPayload ==
    last.op = "capture_return" =>
        /\ Len(sent) = 1
        /\ sent[1] = IF last.arg.op = "capture_exception"
                     THEN ExceptionEvent(last.t, last.ret, last.arg.call)
                     ELSE MessageEvent(last.t, last.ret, last.arg.call)
        /\ last.ret = sent[1].event_id
        /\ \A u \in Threads \ {last.t} :
              capPc[u].pc # "idle" => capPc[u].event.event_id # last.ret
        /\ Cardinality({i \in DOMAIN issued : issued[i] = last.ret}) = 1

\* C21 witness: a call returns while the call of another thread, made with
\* other arguments, has sent its event and not yet returned.
C21_Witness ==
    /\ last.op = "capture_return"
    /\ \E u \in Threads \ {last.t} :
          /\ capPc[u].pc = "return"
          /\ capPc[u].call # last.arg.call
          /\ capPc[u].event.event_id < last.ret

\* C22: get_context() returns a snapshot: the dict a caller holds keeps the
\* value it had when it was returned whatever set_tags, set_extra and
\* set_user_context calls follow, and changing the dict (a new key, an
\* update of a map inside it) leaves what get_context() returns unchanged.
C22_GetContextReturnsSnapshot ==
    /\ [](snap.held /\ last.op \in {"set_tags", "set_extra", "set_user_context"}
            => HeldValue = snap.at)
    /\ [][last'.op \in {"returned_update", "returned_set"}
            => \A t \in Threads : get_context(t)' = get_context(t)]_vars

\* C23: capture_exception and capture_message both put the baggage that is
\* current at the call into the event as contexts.baggage when it is not
\* empty, and leave the key out when there is none.
C23_BaggageAttached ==
    last.op \in {"capture_exception", "capture_message"} /\ Len(sent) = 1 =>
        sent[1].baggage = IF last.arg.baggage # EmptyDict
                          THEN Some(last.arg.baggage) ELSE NoDict

----------------------------------------------------------------------------
(* Claims about discovery and activation in setup_integrations *)

\* The entries of the discovery pass of the most recent call
DiscoveryPass ==
    DefaultIntegrations \o
        (IF last.arg.call.with_auto_enabling_integrations
         THEN AutoEnablingIntegrations ELSE <<>>)

\* The elements of a sequence
Range(seq) == {seq[i] : i \in DOMAIN seq}

\* C24: in the discovery pass of setup_integrations an entry that cannot be
\* resolved is a soft-skip: the call raises nothing for it, and every entry
\* of the pass is still resolved.
C24_ResolutionFailureIsSoftSkip ==
    last.op = "setup_integrations" /\ last.arg.call.with_defaults =>
        LET failed == {k \in DOMAIN DiscoveryPass :
                          last.arg.call.host[DiscoveryPass[k]] # "ok"}
        IN  failed # {} =>
              /\ ~ /\ last.arg.result.attempted = <<>>
                    /\ last.raised \in
                         {last.arg.call.host[DiscoveryPass[k]] : k \in failed}
              /\ \A k \in DOMAIN DiscoveryPass :
                    \E j \in DOMAIN last.arg.result.resolved :
                        last.arg.result.resolved[j] = DiscoveryPass[k]

\* C25: setup_integrations returns the enabled integrations: an integration
\* the caller passed that is not disabled, that declares no minimum version
\* (or whose host meets it) and whose setup_once succeeds has had setup_once
\* called exactly once and is in the returned dictionary under its identifier.
C25_ExplicitIntegrationEnabled ==
    last.op = "setup_integrations" =>
        \A j \in DOMAIN last.arg.call.integrations :
            LET cls == last.arg.call.integrations[j]
                id == Identifier(cls)
            IN  /\ cls \notin last.arg.call.disabled_integrations
                /\ MinVersion(id) = NoVersion
                /\ last.arg.hook[id] = "ok"
                => /\ last.raised = "none"
                   /\ id \in last.arg.result.enabled
                   /\ last.arg.result.once[id] = 1

\* C26: after any sequence of register and setup calls of the registry,
\* is_installed(id) holds and id is in get_installed() exactly when a setup
\* call for id ran setup_once() and setup(client) to completion without
\* error; an identifier whose activation soft-skipped or failed, also when
\* setup_once() succeeded and setup(client) raised, is processed once its
\* call has ended and is never installed.
C26_InstalledIffActivated ==
    \A id \in Identifiers :
        /\ is_installed(id) <=> id \in get_installed
        /\ is_installed(id) <=> settled[id] = "installed"
        /\ is_installed(id) => onceCount[id] = 1 /\ setupCount[id] = 1
        /\ settled[id] \in {"skipped", "failed"} =>
              /\ ~is_installed(id)
              /\ NoThreadInSetup => id \in processed

\* C26 witness: one integration is installed, and another, whose setup_once()
\* succeeded and whose setup(client) raised, is processed and not installed.
C26_Witness ==
    \E id, other \in Identifiers :
        /\ is_installed(id)
        /\ settled[other] = "failed"
        /\ onceCount[other] = 1 /\ setupCount[other] = 1
        /\ other \in processed /\ ~is_installed(other)

----------------------------------------------------------------------------
(* Claims about sending, flush and close *)

C30_CloseFlushesThenReleases ==
    /\ last.op = "close" =>
          LET steps == last.arg.steps
          IN  /\ steps[1] = "flush"
              /\ steps[Len(steps)] = "session.close"
              /\ \A i \in 1 .. Len(steps) - 1 : steps[i] # "session.close"
              /\ cli.session = "closed"
              /\ last.arg.before.enable_tracing => cli.pending = 0
    /\ last.op \in {"flush", "close"} => last.raised = "none"
    /\ last.op = "flush" /\ ~last.arg.before.enable_tracing =>
          /\ cli = last.arg.before
          /\ last.arg.steps = <<"flush">>

\* C30 witness: close() is called on a client that was closed before, with
\* nothing pending.
C30_Witness ==
    /\ last.op = "close"
    /\ last.arg.before.session = "closed"
    /\ last.arg.before.pending = 0
    /\ last.arg.before.enable_tracing

----------------------------------------------------------------------------
(* Claims about the client binding and about with_context *)

\* C28: set_client sets the client of the process: once some thread has
\* called set_client, get_client() returns the client in every thread, and
\* a function wrapped by capture_errors that raises, in whichever thread,
\* has its error captured.
C28_ClientIsGlobal ==
    (\E u \in Threads : client[u]) =>
        /\ last.op = "get_client" => last.value = "client"
        /\ last.op = "capture_errors" /\ last.arg.func = "raise" =>
              Len(sent) = 1

\* C29: inside a with_context(**context_data) block get_context() contains
\* every key that was passed with the value that was passed, among them the
\* user_id and component of the documented example; a tags or extra map
\* passed is contained in the map of that name.
C29_WithContextSetsEveryKey ==
    last.op = "with_context_enter" =>
        \A k \in DOMAIN last.arg :
            /\ k \in DOMAIN get_context(last.t)
            /\ IF k \in {"tags", "extra"}
               THEN \A x \in DOMAIN last.arg[k] :
                        /\ x \in DOMAIN get_context(last.t)[k]
                        /\ get_context(last.t)[k][x] = last.arg[k][x]
               ELSE IF k = "user"
               THEN get_context(last.t)[k] = UserDict(last.arg[k])
               ELSE get_context(last.t)[k] = last.arg[k]

----------------------------------------------------------------------------
(* Claims about which integrations setup_integrations resolves and attempts *)

\* C31: an auto-enabling integration is resolved and attempted only with
\* with_auto_enabling_integrations, nothing is resolved without
\* with_defaults, and with with_defaults every integration of the always-on
\* default set whose import succeeds is attempted, in every call.
C31_DefaultsAlwaysAttempted ==
    last.op = "setup_integrations" =>
        /\ ~last.arg.call.with_auto_enabling_integrations =>
              Range(last.arg.result.resolved) \cap Range(AutoEnablingIntegrations) = {}
        /\ ~last.arg.call.with_defaults => last.arg.result.resolved = <<>>
        /\ last.arg.call.with_defaults =>
              \A cls \in Range(DefaultIntegrations) :
                  last.arg.call.host[cls] = "ok" =>
                      Identifier(cls) \in Range(last.arg.result.attempted)

----------------------------------------------------------------------------
(* Claims about capture_context_in_exception *)

\* The map the caller supplied under a key of capture_context_in_exception
Supplied(key) == IF key \in DOMAIN last'.arg.call THEN last'.arg.call[key] ELSE EmptyDict

\* The keyword arguments of the call other than user, tags and extra
OtherKeywords == DOMAIN last'.arg.call \ TopKeys

\* The map the store holds under a key before the call
Stored(key) == GetOr(get_context(last'.t), key)

\* C32: with a client bound, capture_context_in_exception sends one event;
\* each of its user, tags and extra has the keys of the store's map and of the
\* map the caller supplied (extra also every other keyword argument), a key
\* the caller supplied has the caller's value, and any other key has the
\* store's value.
C32_CallerWinsOverStore ==
    [][(last'.op = "capture_context_in_exception" /\ last'.arg.bound) =>
        /\ Len(sent') = 1
        /\ sent'[1].event_type = "error"
        /\ \A key \in TopKeys :
              LET kw == IF key = "extra" THEN OtherKeywords ELSE {}
              IN  /\ DOMAIN sent'[1][key] =
                        DOMAIN Stored(key) \cup DOMAIN Supplied(key) \cup kw
                  /\ \A k \in DOMAIN sent'[1][key] :
                        sent'[1][key][k] =
                            IF k \in kw THEN last'.arg.call[k]
                            ELSE IF k \in DOMAIN Supplied(key) THEN Supplied(key)[k]
                            ELSE Stored(key)[k]]_vars

\* C32 happens: the store held the tag env = prod, the caller supplied
\* env = dev with an extra map and another keyword argument, and the event
\* sent carries env = dev.
C32_Witness ==
    /\ last.op = "capture_context_in_exception"
    /\ last.arg.bound
    /\ "attempt_number" \in DOMAIN last.arg.call
    /\ "tags" \in DOMAIN last.before
    /\ last.before["tags"] = [x \in {"env"} |-> "prod"]
    /\ Len(sent) = 1
    /\ sent[1].tags["env"] = "dev"
    /\ sent[1].extra["attempt_number"] = "3"
    /\ sent[1].extra["order"] = "o1"

\* C36: capture_context_in_exception leaves the context store as it was:
\* get_context() after the call equals get_context() before it.
C36_StoreUnchanged ==
    last.op = "capture_context_in_exception" => get_context(last.t) = last.before

----------------------------------------------------------------------------
(* Claims about the minimum version of an integration *)

\* v is lower than w as Python orders tuples of integers: they differ first
\* at a position where v is smaller, or v is a proper prefix of w
Lower(v, w) ==
    \/ \E i \in 1 .. Len(v) :
          /\ i <= Len(w)
          /\ v[i] < w[i]
          /\ \A j \in 1 .. (i - 1) : v[j] = w[j]
    \/ /\ Len(v) < Len(w)
       /\ \A j \in 1 .. Len(v) : v[j] = w[j]

\* C33: _check_minimum_version raises DidNotEnable when the version is None
\* or lower than the minimum declared for the identifier, and returns in
\* every other case, so it raises nothing else; in setup_integrations an
\* integration of the default set whose check raises is skipped (the
\* DidNotEnable is swallowed), never logged as failed and never raised.
C33_BelowMinimumIsSoftSkip ==
    /\ last.op = "_check_minimum_version" =>
          LET declared == last.arg.id = "redis"
              refused == \/ last.arg.version = <<>>
                         \/ declared /\ Lower(last.arg.version, <<3, 0>>)
          IN  last.raised = IF refused THEN "DidNotEnable" ELSE "none"
    /\ last.op = "setup_integrations" =>
          \A i \in Identifiers :
              (Result.hist[i].default /\ Result.hist[i].exc = "DidNotEnable") =>
                  /\ Result.hist[i].outcome = "swallowed"
                  /\ i \notin Result.enabled

\* C33 happens: the check is made for redis, whose minimum is (3, 0), with
\* the version (3,), which is lower, and DidNotEnable is raised.
C33_Witness ==
    /\ last.op = "_check_minimum_version"
    /\ last.arg.id = "redis"
    /\ last.arg.version = <<3>>
    /\ last.raised = "DidNotEnable"

\* C33 happens too: the version equals the minimum and the check returns.
C33_WitnessMet ==
    /\ last.op = "_check_minimum_version"
    /\ last.arg.id = "redis"
    /\ last.arg.version = <<3, 0>>
    /\ last.raised = "none"

----------------------------------------------------------------------------
(* Claims about the control flow of retry_with_telemetry *)

\* C34: whatever max_retries is, the wrapped function is called at least
\* once and the call of the wrapper ends inside the loop, returning the
\* function's result or raising an error the function raised; the raise
\* after the loop is never executed.
C34_LoopAlwaysDecides ==
    last.op = "retry_with_telemetry" =>
        /\ Result.calls >= 1
        /\ ~Result.after_loop
        /\ \/ last.raised = "none" /\ last.value = "result"
           \/ \E i \in 1 .. Result.calls : Func[i] = last.raised

\* The same call made with the other binding: a client bound if none was,
\* none if one was
OtherBinding(outcome) ==
    RetryLoop(Call, Func, outcome, 0, Call.delay,
              StartCall(last.t, Result.n0, ~Result.bound))

\* C38: for the same outcomes of the wrapped function, a call of
\* retry_with_telemetry makes the same number of calls and the same sleeps
\* and returns the same value or raises the same error whether or not a
\* client is bound.
C38_BindingIndependent ==
    last.op = "retry_with_telemetry" =>
        \A outcome \in WrapperOutcomes :
            /\ OtherBinding(outcome).calls = Result.calls
            /\ OtherBinding(outcome).sleeps = Result.sleeps
            /\ OtherBinding(outcome).raised = Result.raised
            /\ OtherBinding(outcome).value = Result.value

----------------------------------------------------------------------------
(* Claims about trace_function *)

\* The position of the first step of a wrapper call with operation op, or 0
StepAt(op) ==
    IF \E i \in DOMAIN Result.log : Result.log[i].op = op
    THEN CHOOSE i \in DOMAIN Result.log :
            /\ Result.log[i].op = op
            /\ \A j \in 1 .. (i - 1) : Result.log[j].op # op
    ELSE 0

\* C35: when the function wrapped by trace_function raises, the exception
\* is recorded on the span and then the status of the span is set to ERROR,
\* both after the call and before the wrapper raises, and what the wrapper
\* raises is that exception; when the function returns, the wrapper returns
\* its result, whatever capture_args and capture_result are, and raises
\* nothing.
C35_ErrorRecordedThenRaised ==
    last.op = "trace_function" =>
        IF Func.outcome # "ok"
        THEN /\ last.raised = Func.outcome
             /\ StepAt("call") > 0
             /\ StepAt("call") < StepAt("record_exception")
             /\ StepAt("record_exception") < StepAt("set_status")
             /\ StepAt("set_status") < StepAt("raise")
             /\ Result.log[StepAt("record_exception")].arg = Func.outcome
             /\ Result.log[StepAt("set_status")].arg = "ERROR"
             /\ StepAt("return") = 0
        ELSE /\ last.raised = "none"
             /\ last.value = Func.result
             /\ StepAt("record_exception") = 0
             /\ StepAt("set_status") = 0

\* C35 happens: with capture_args and capture_result the function raised
\* ValueError, which was recorded and raised.
C35_Witness ==
    /\ last.op = "trace_function"
    /\ Call.capture_args /\ Call.capture_result
    /\ Func.outcome = "ValueError"
    /\ last.raised = "ValueError"
    /\ StepAt("record_exception") > 0

\* C35 happens too: with capture_result the function returned an object
\* that is no simple type, and the wrapper returned it.
C35_WitnessReturned ==
    /\ last.op = "trace_function"
    /\ Call.capture_result
    /\ Func.outcome = "ok"
    /\ Func.result = "object"
    /\ last.value = "object"

----------------------------------------------------------------------------
(* Claims about TelescopeContextMiddleware *)

\* The request the middleware handled last
Request == last.arg

\* C37: after the middleware has handled a request on a thread, the
\* thread's context holds the request's url, method and user_agent as its
\* only tags and the request's request_id and ip_address as its only extra;
\* it holds a user exactly if the request's user is authenticated, made of
\* that user's id, username and email and nothing else.
C37_OnlyCurrentRequest ==
    last.op = "middleware" =>
        LET context == get_context(last.t)
            user == Request.user
            authenticated == user.present /\ user.is_authenticated
        IN  /\ DOMAIN context =
                    {"tags", "extra"} \cup (IF authenticated THEN {"user"} ELSE {})
            /\ DOMAIN context["tags"] = {"url", "method", "user_agent"}
            /\ context["tags"]["url"] = Request.path
            /\ context["tags"]["method"] = Request.method
            /\ context["tags"]["user_agent"] = Request.user_agent
            /\ DOMAIN context["extra"] = {"request_id", "ip_address"}
            /\ context["extra"]["request_id"] = Request.request_id
            /\ context["extra"]["ip_address"] = Request.ip_address
            /\ authenticated =>
                  /\ DOMAIN context["user"] =
                        {"id"} \cup (IF user.username # "" THEN {"username"} ELSE {})
                               \cup (IF user.email # "" THEN {"email"} ELSE {})
                  /\ context["user"]["id"] = (IF user.id = 7 THEN "7" ELSE "12")
                  /\ user.username # "" => context["user"]["username"] = user.username
                  /\ user.email # "" => context["user"]["email"] = user.email

\* C37 happens: the thread's context held a user, a component tag and an
\* order in extra from an earlier request, the middleware handled a request
\* without an authenticated user, and the context holds no user.
C37_Witness ==
    /\ last.op = "middleware"
    /\ ~Request.user.is_authenticated
    /\ DOMAIN last.before = {"user", "tags", "extra"}
    /\ "id" \in DOMAIN last.before["user"]
    /\ "component" \in DOMAIN last.before["tags"]
    /\ "order" \in DOMAIN last.before["extra"]
    /\ "user" \notin DOMAIN get_context(last.t)

====
